---- MODULE Spec2Model ----
(***************************************************************************)
(* The create_sockets protocol of src/cluster/src/communication.rs: every  *)
(* process of a Timely cluster binds a listener, dials all lower-indexed   *)
(* peers (process 0 mints an epoch instead), then accepts all higher-      *)
(* indexed peers; initialize_networking repeats the attempt until it       *)
(* succeeds or fails fatally.                                              *)
(*                                                                         *)
(* One action is one step of one process between two suspension points     *)
(* (.await) of the code.  A connection is a pair of byte streams carrying  *)
(* 64-bit words; the environment may crash processes and fail I/O within   *)
(* the budgets chosen by Init.                                             *)
(***************************************************************************)
EXTENDS Naturals, Integers, Sequences, FiniteSets, TLC

\* ------------------------------------------------------------------ bounds

\* Largest fleet size (addresses.len()) the model runs.
MaxN == 3
\* Process crashes the environment may cause in one behaviour.
MaxCrashes == 1
\* I/O failures (connect/accept/read/write errors) in one behaviour.
MaxIoFail == 1
\* Epoch fields range over 0..MaxTime and 0..MaxNonce.
MaxTime == 1
MaxNonce == 1

\* Retry::max_tries(10) of the listener bind.
MaxTries == 10

\* ------------------------------------------------------------------ values

\* Process indexes; a fleet of n processes is 0 .. n-1, the rest are absent.
Proc == 0 .. MaxN

\* Option<T>
None == << >>
Some(x) == << x >>
IsSome(o) == o # None
IsNone(o) == o = None
Unwrap(o) == o[1]

\* Option::unwrap_or_default: the zero epoch instead of the peer's.
UnwrapOrDefault(o, d) == IF o = None THEN [time |-> 0, nonce |-> 0] ELSE o[1]

UnwrapOr(o, d) == IF o = None THEN d ELSE o[1]

\* struct Epoch { time: u64, nonce: u64 }
Epoch == [time : 0 .. MaxTime, nonce : 0 .. MaxNonce]

\* An order that looks at the nonce before the time.
EpochCmpNonceFirst(a, b) ==
    IF a.nonce < b.nonce THEN "Less"
    ELSE IF a.nonce > b.nonce THEN "Greater"
    ELSE IF a.time < b.time THEN "Less"
    ELSE IF a.time > b.time THEN "Greater"
    ELSE "Equal"

\* #[derive(PartialOrd, Ord)] on Epoch: lexicographic, time first.
EpochCmp(a, b) ==
    IF a.time < b.time THEN "Less"
    ELSE IF a.time > b.time THEN "Greater"
    ELSE IF a.nonce < b.nonce THEN "Less"
    ELSE IF a.nonce > b.nonce THEN "Greater"
    ELSE "Equal"

\* Epoch::write with the two fields in the wrong order.
EpochWordsSwapped(e) == << e.nonce, e.time >>

\* Epoch::write: time, then nonce, each one u64 word.
EpochWords(e) == << e.time, e.nonce >>

\* Epoch::read: the first word is time, the second nonce.
EpochOfWords(w) == [time |-> w[1], nonce |-> w[2]]

\* A u64 word is WordBytes bytes on the wire.
WordBytes == 8

\* The k low bytes of w, least significant first.
LittleEndian(w, k) == [i \in 1 .. k |-> (w \div (256 ^ (i - 1))) % 256]

\* The k low bytes of w, most significant first.
BigEndian(w, k) == [i \in 1 .. k |-> LittleEndian(w, k)[k + 1 - i]]

\* write_u64 that sends the least significant byte first.
WriteU64Little(w) == LittleEndian(w, 3) \o [i \in 1 .. WordBytes - 3 |-> 0]

\* write_u64: the word in big-endian order. The words of the model are below
\* 256^3, so all but the last three bytes are zero.
WriteU64(w) == [i \in 1 .. WordBytes - 3 |-> 0] \o BigEndian(w, 3)

\* read_u64: the value of WordBytes bytes in big-endian order.
ReadU64(bs) == bs[WordBytes - 2] * 256 * 256 + bs[WordBytes - 1] * 256 + bs[WordBytes]

\* Epoch::write, byte by byte.
EpochBytes(e) == WriteU64(EpochWords(e)[1]) \o WriteU64(EpochWords(e)[2])

\* Epoch::read of the first 2 * WordBytes bytes of a stream.
EpochOfBytes(bs) ==
    EpochOfWords(<< ReadU64(SubSeq(bs, 1, WordBytes)),
                    ReadU64(SubSeq(bs, WordBytes + 1, 2 * WordBytes)) >>)

\* A mint that does not read the clock.
EpochMintNoClock(time, nonce) == [time |-> 0, nonce |-> nonce]

\* Epoch::mint: the milliseconds of the system clock and a random nonce.
EpochMint(time, nonce) == [time |-> time, nonce |-> nonce]

\* CreateSocketsError
BindError == [kind |-> "Bind", peer_index |-> None, peer_epoch |-> None, my_epoch |-> None]
\* EpochMismatch with the two epochs in each other's field.
EpochMismatchSwapped(index, peer, my) ==
    [kind |-> "EpochMismatch", peer_index |-> Some(index), peer_epoch |-> Some(my), my_epoch |-> Some(peer)]
EpochMismatch(index, peer, my) ==
    [kind |-> "EpochMismatch", peer_index |-> Some(index), peer_epoch |-> Some(peer), my_epoch |-> Some(my)]
Reconnect(index) ==
    [kind |-> "Reconnect", peer_index |-> Some(index), peer_epoch |-> None, my_epoch |-> None]

\* is_fatal that also matches Reconnect.
IsFatalReconnect(e) == e.kind \in {"Bind", "Reconnect"}

\* CreateSocketsError::is_fatal
IsFatal(e) == e.kind = "Bind"

\* ------------------------------------------------------------------ state

VARIABLES
    n,        \* addresses.len(): the fleet is processes 0 .. n-1
    pc,       \* where each process is in initialize_networking/create_sockets
    tries,    \* failed tries of the Listener::bind in progress
    epoch,    \* my_epoch: Option<Epoch>
    lower,    \* connect_lower's `sockets`
    dsock,    \* handshake's stream `s` while the handshake is suspended
    slots,    \* accept_higher's `sockets`: Vec<Option<Stream>>
    asock,    \* accept_higher's (index, sock) while exchange_epochs is suspended
    backlog,  \* the listener's queue of connections not yet accepted
    err,      \* the Err create_sockets returned to the driver loop
    result,   \* the Ok vector create_sockets returned
    conns,    \* the connections: streams in both directions and their ends
    minted,   \* every epoch Epoch::mint has returned
    budget,   \* faults the environment may still cause
    seen,     \* the peers whose index or handshake this attempt has observed
    addresses, \* addresses: the form of each process's address string
    handoff,  \* what initialize_networking did with the vector after its loop
    bench     \* the Epoch operations applied on their own: inputs and results

vars == << n, pc, tries, epoch, lower, dsock, slots, asock, backlog,
           err, result, conns, minted, budget, seen, addresses, handoff, bench >>

\* A connection is named <<dialer, listener, k>>.
ConnCap == MaxCrashes + MaxIoFail + 2
Dialer(c) == c[1]
Acceptor(c) == c[2]

Fleet == 0 .. (n - 1)

\* The forms an address string takes: host and port, a path, and a path
\* that ends like a port.
AddressForms == {"host:port", "/path", "/path:port"}

\* port_re = Regex::new(r":(\d{1,5})$")
PortRe(a) == a \in {"host:port", "/path:port"}

\* listen_address: 0.0.0.0 and the port where the address ends in one, the
\* address itself otherwise.
ListenAddress(a) == IF PortRe(a) THEN "0.0.0.0:port" ELSE a

\* The transport of an address: a path is a Unix socket, anything else TCP.
FamilyOf(a) == IF a \in {"/path", "/path:port"} THEN "unix" ELSE "tcp"

\* No Epoch operation is applied on its own.
NoBench == [op |-> "none"]

\* initialize_networking in its loop: the transport initializer is not yet
\* called and nothing has failed.
NotHanded == [sockets |-> None, error |-> None]

\* The listener of p is bound and not yet dropped.
Listens(p) == pc[p] \in {"lower", "handshake", "higher", "exchange"}

\* Stream::connect(addresses[p]) finds the listener of p: it is bound, and
\* bound to the address the peers dial.
Listening(p) ==
    /\ Listens(p)
    /\ FamilyOf(ListenAddress(addresses[p])) = FamilyOf(addresses[p])

\* A fresh connection: nothing written, both ends open.
NewConn ==
    [d2l |-> << >>, l2d |-> << >>, dOpen |-> TRUE, lOpen |-> TRUE,
     dWrote |-> None, lWrote |-> None]

\* The names <<d, l, k>> not in use.
FreeIds(d, l) == {k \in 1 .. ConnCap : << d, l, k >> \notin DOMAIN conns}
Min(S) == CHOOSE x \in S : \A y \in S : x <= y

\* A connection lives until both ends are closed.
Prune(cs) ==
    LET live == {c \in DOMAIN cs : cs[c].dOpen \/ cs[c].lOpen}
    IN [c \in live |-> cs[c]]

\* Dropping a Stream closes this end; what the peer sent to it is lost,
\* what it sent can still be read by the peer.
CloseEnd(cs, c, p) ==
    IF c \notin DOMAIN cs THEN cs
    ELSE IF Dialer(c) = p
    THEN Prune([cs EXCEPT ![c].dOpen = FALSE, ![c].l2d = << >>])
    ELSE Prune([cs EXCEPT ![c].lOpen = FALSE, ![c].d2l = << >>])

\* Every stream of process p and its listener's queue are closed.
DropAll(cs, p) ==
    Prune([c \in DOMAIN cs |->
        IF Dialer(c) = p THEN [cs[c] EXCEPT !.dOpen = FALSE, !.l2d = << >>]
        ELSE IF Acceptor(c) = p THEN [cs[c] EXCEPT !.lOpen = FALSE, !.d2l = << >>]
        ELSE cs[c]])

\* Only the queued connections of p's listener are closed (the listener is
\* dropped when create_sockets returns Ok; the returned streams stay open).
DropListener(cs, p) ==
    Prune([c \in DOMAIN cs |->
        IF \E i \in 1 .. Len(backlog[p]) : backlog[p][i] = c
        THEN [cs[c] EXCEPT !.lOpen = FALSE, !.d2l = << >>]
        ELSE cs[c]])

\* Whether the far end of stream c, held by p, is closed.
\* Epoch::read on a stream whose far end is closed with less than an epoch
\* left to read: read_u64 returns an error.
EndOfStream(open, words) == ~open /\ Len(words) < 2

FarEndClosed(c, p) ==
    IF Dialer(c) = p THEN ~conns[c].lOpen ELSE ~conns[c].dOpen

\* ------------------------------------------------------------ create_sockets

\* No peer observed yet in this attempt.
NoneSeen == [once |-> {}, again |-> {}]

\* Peer k is observed: its index was read from an accepted connection, or a
\* handshake with it completed. `again` holds the peers observed more than once.
Observe(sn, k) ==
    IF k \in sn.once THEN [sn EXCEPT !.again = @ \cup {k}]
    ELSE [sn EXCEPT !.once = @ \cup {k}]

\* An attempt whose dialed streams survive it.
AbandonKeepLower(p, cs) ==
    /\ conns' = cs
    /\ epoch' = [epoch EXCEPT ![p] = None]
    /\ lower' = lower
    /\ dsock' = [dsock EXCEPT ![p] = None]
    /\ slots' = [slots EXCEPT ![p] = << >>]
    /\ asock' = [asock EXCEPT ![p] = None]
    /\ backlog' = [backlog EXCEPT ![p] = << >>]
    /\ tries' = [tries EXCEPT ![p] = 0]
    /\ seen' = [seen EXCEPT ![p] = NoneSeen]

\* The locals of an attempt are dropped: listener, epoch and every stream.
Abandon(p, cs) ==
    /\ conns' = DropAll(cs, p)
    /\ epoch' = [epoch EXCEPT ![p] = None]
    /\ lower' = [lower EXCEPT ![p] = << >>]
    /\ dsock' = [dsock EXCEPT ![p] = None]
    /\ slots' = [slots EXCEPT ![p] = << >>]
    /\ asock' = [asock EXCEPT ![p] = None]
    /\ backlog' = [backlog EXCEPT ![p] = << >>]
    /\ tries' = [tries EXCEPT ![p] = 0]
    /\ seen' = [seen EXCEPT ![p] = NoneSeen]

\* create_sockets returns Err(e) to the loop of initialize_networking.
ReturnErr(p, e, cs) ==
    /\ Abandon(p, cs)
    /\ pc' = [pc EXCEPT ![p] = "failed"]
    /\ err' = [err EXCEPT ![p] = Some(e)]
    /\ UNCHANGED << n, addresses, bench, handoff, result, minted, budget >>

\* Retry::max_tries: the operation is tried at most MaxTries times.
RetryExhausted(failed) == failed >= MaxTries

\* Listener::bind succeeds.
BindOk(p) ==
    /\ pc[p] = "bind"
    /\ pc' = [pc EXCEPT ![p] = "lower"]
    /\ tries' = [tries EXCEPT ![p] = 0]
    /\ UNCHANGED << n, addresses, bench, handoff, epoch, lower, dsock, slots, asock, backlog, err,
                    result, conns, minted, budget, seen >>

\* The bind whose last error is not propagated: the attempt goes on.
BindFailSwallowed(p) ==
    /\ pc[p] = "bind"
    /\ budget.bind
    /\ tries' = [tries EXCEPT ![p] = tries[p] + 1]
    /\ pc' = [pc EXCEPT ![p] = IF RetryExhausted(tries[p] + 1) THEN "lower" ELSE "bind"]
    /\ UNCHANGED << n, addresses, bench, handoff, epoch, lower, dsock, slots, asock, backlog, err, result,
                    conns, minted, budget, seen >>

\* Listener::bind fails: retried, or the Bind error once the tries are used up.
BindFail(p) ==
    /\ pc[p] = "bind"
    /\ budget.bind
    /\ IF RetryExhausted(tries[p] + 1)
       THEN ReturnErr(p, BindError, conns)
       ELSE /\ tries' = [tries EXCEPT ![p] = tries[p] + 1]
            /\ UNCHANGED << n, addresses, bench, handoff, pc, epoch, lower, dsock, slots, asock,
                            backlog, err, result, conns, minted, budget, seen >>

\* The slots of the inclusive range offset..=n_peers: one too many.
EmptySlotsInclusive(p) == [i \in 1 .. (n - p) |-> None]

\* accept_higher's initial `sockets`: one empty slot per higher peer.
EmptySlots(p) == [i \in 1 .. (n - p - 1) |-> None]

\* An epoch kept across attempts: minted once, handed out again afterwards.
MintChoicesKept == IF minted = {} THEN Epoch ELSE minted

\* Epoch::mint: the clock may have gone backwards; the nonce keeps two
\* mints from being equal.
MintChoices == Epoch \ minted

\* create_sockets, my_index = 0: mint, then enter accept_higher.
Mint(p) ==
    /\ pc[p] = "lower"
    /\ p = 0
    /\ \E e \in MintChoices :
        /\ epoch' = [epoch EXCEPT ![p] = Some(e)]
        /\ minted' = minted \cup {e}
    /\ pc' = [pc EXCEPT ![p] = "higher"]
    /\ slots' = [slots EXCEPT ![p] = EmptySlots(p)]
    /\ UNCHANGED << n, addresses, bench, handoff, tries, lower, dsock, asock, backlog, err, result,
                    conns, budget, seen >>

\* ------------------------------------------------------------- connect_lower

\* connect_lower that walks the addresses from the end of the list: it dials
\* itself and higher peers.
DialConnectFromEnd(p) ==
    /\ pc[p] = "lower"
    /\ p > 0
    /\ Len(lower[p]) < p
    /\ LET index == n - 1 - Len(lower[p])
       IN /\ Listening(index)
          /\ FreeIds(p, index) # {}
          /\ LET c == << p, index, Min(FreeIds(p, index)) >>
             IN /\ conns' = (c :> [NewConn EXCEPT !.d2l = << p >>]) @@ conns
                /\ backlog' = [backlog EXCEPT ![index] = Append(@, c)]
                /\ dsock' = [dsock EXCEPT ![p] = Some(c)]
    /\ pc' = [pc EXCEPT ![p] = "handshake"]
    /\ UNCHANGED << n, addresses, bench, handoff, tries, epoch, lower, slots, asock, err, result,
                    minted, budget, seen >>

\* handshake: Stream::connect to addresses[index], then write my_index.
DialConnect(p) ==
    /\ pc[p] = "lower"
    /\ p > 0
    /\ Len(lower[p]) < p
    /\ LET index == Len(lower[p])
       IN /\ Listening(index)
          /\ FreeIds(p, index) # {}
          /\ LET c == << p, index, Min(FreeIds(p, index)) >>
             IN /\ conns' = (c :> [NewConn EXCEPT !.d2l = << p >>]) @@ conns
                /\ backlog' = [backlog EXCEPT ![index] = Append(@, c)]
                /\ dsock' = [dsock EXCEPT ![p] = Some(c)]
    /\ pc' = [pc EXCEPT ![p] = "handshake"]
    /\ UNCHANGED << n, addresses, bench, handoff, tries, epoch, lower, slots, asock, err, result,
                    minted, budget, seen >>

\* `continue` after a smaller peer epoch with the stream left open.
DialRefuseKeepOpen(p, c, cs) ==
    /\ conns' = cs
    /\ dsock' = [dsock EXCEPT ![p] = None]
    /\ pc' = [pc EXCEPT ![p] = "lower"]
    /\ seen' = [seen EXCEPT ![p] = Observe(@, Acceptor(c))]
    /\ tries' = [tries EXCEPT ![p] = 0]
    /\ UNCHANGED << n, addresses, bench, handoff, epoch, lower, slots, asock, backlog, err,
                    result, minted, budget >>

\* `continue` after a smaller peer epoch: the stream is dropped, same peer again.
DialRefuse(p, c, cs) ==
    /\ conns' = CloseEnd(cs, c, p)
    /\ dsock' = [dsock EXCEPT ![p] = None]
    /\ pc' = [pc EXCEPT ![p] = "lower"]
    /\ seen' = [seen EXCEPT ![p] = Observe(@, Acceptor(c))]
    /\ tries' = [tries EXCEPT ![p] = 0]
    /\ UNCHANGED << n, addresses, bench, handoff, epoch, lower, slots, asock, backlog, err,
                    result, minted, budget >>

\* The stream is pushed but the epoch received is not kept.
DialPushNoAdopt(p, c, cs, e) ==
    /\ conns' = cs
    /\ lower' = [lower EXCEPT ![p] = Append(@, c)]
    /\ dsock' = [dsock EXCEPT ![p] = None]
    /\ pc' = [pc EXCEPT ![p] = "lower"]
    /\ seen' = [seen EXCEPT ![p] = Observe(@, Acceptor(c))]
    /\ UNCHANGED << n, addresses, bench, handoff, tries, epoch, slots, asock, backlog, err,
                    result, minted, budget >>

\* sockets.push(sock)
DialPush(p, c, cs, e) ==
    /\ conns' = cs
    /\ epoch' = [epoch EXCEPT ![p] = Some(e)]
    /\ lower' = [lower EXCEPT ![p] = Append(@, c)]
    /\ dsock' = [dsock EXCEPT ![p] = None]
    /\ pc' = [pc EXCEPT ![p] = "lower"]
    /\ seen' = [seen EXCEPT ![p] = Observe(@, Acceptor(c))]
    /\ UNCHANGED << n, addresses, bench, handoff, tries, slots, asock, backlog, err, result, minted,
                    budget >>

\* connect_lower that dials again on a greater epoch instead of failing.
DialCompareNoMismatch(p, c, cs, peer_epoch) ==
    IF IsSome(epoch[p])
    THEN LET my == Unwrap(epoch[p])
         IN CASE EpochCmp(peer_epoch, my) = "Equal" -> DialPush(p, c, cs, my)
              [] OTHER -> DialRefuse(p, c, cs)
    ELSE DialPush(p, c, cs, peer_epoch)

\* connect_lower that reports a greater epoch as a reconnecting peer.
DialCompareReconnect(p, c, cs, peer_epoch) ==
    IF IsSome(epoch[p])
    THEN LET my == Unwrap(epoch[p])
         IN CASE EpochCmp(peer_epoch, my) = "Less" -> DialRefuse(p, c, cs)
              [] EpochCmp(peer_epoch, my) = "Greater" ->
                    ReturnErr(p, Reconnect(Acceptor(c)), cs)
              [] OTHER -> DialPush(p, c, cs, my)
    ELSE DialPush(p, c, cs, peer_epoch)

\* connect_lower without the `continue` of the Ordering::Less arm.
DialCompareNoRefuse(p, c, cs, peer_epoch) ==
    IF IsSome(epoch[p])
    THEN LET my == Unwrap(epoch[p])
         IN CASE EpochCmp(peer_epoch, my) = "Greater" ->
                    ReturnErr(p, EpochMismatch(Acceptor(c), peer_epoch, my), cs)
              [] OTHER -> DialPush(p, c, cs, my)
    ELSE DialPush(p, c, cs, peer_epoch)

\* connect_lower that takes over a smaller epoch of a peer and keeps the stream.
DialCompareAdopt(p, c, cs, peer_epoch) ==
    IF IsSome(epoch[p])
    THEN LET my == Unwrap(epoch[p])
         IN CASE EpochCmp(peer_epoch, my) = "Less" -> DialPush(p, c, cs, peer_epoch)
              [] EpochCmp(peer_epoch, my) = "Greater" ->
                    ReturnErr(p, EpochMismatch(Acceptor(c), peer_epoch, my), cs)
              [] OTHER -> DialPush(p, c, cs, my)
    ELSE DialPush(p, c, cs, peer_epoch)

\* What connect_lower does with the handshake's (peer_epoch, sock).
DialCompare(p, c, cs, peer_epoch) ==
    IF IsSome(epoch[p])
    THEN LET my == Unwrap(epoch[p])
         IN CASE EpochCmp(peer_epoch, my) = "Less" -> DialRefuse(p, c, cs)
              [] EpochCmp(peer_epoch, my) = "Greater" ->
                    ReturnErr(p, EpochMismatch(Acceptor(c), peer_epoch, my), cs)
              [] OTHER -> DialPush(p, c, cs, my)
    ELSE DialPush(p, c, cs, peer_epoch)

\* A handshake that writes my_index once more before its epoch.
DialExchangeIndexAgain(p) ==
    /\ pc[p] = "handshake"
    /\ LET c == Unwrap(dsock[p])
           s == conns[c]
       IN /\ Len(s.l2d) >= 2
          /\ LET peer_epoch == EpochOfWords(s.l2d)
                 my_epoch == UnwrapOr(epoch[p], peer_epoch)
                 cs == [conns EXCEPT
                          ![c].l2d = SubSeq(s.l2d, 3, Len(s.l2d)),
                          ![c].d2l = IF s.lOpen THEN s.d2l \o << p >> \o EpochWords(my_epoch)
                                     ELSE << >>,
                          ![c].dWrote = Some(my_epoch)]
             IN DialCompare(p, c, cs, peer_epoch)

\* handshake: Epoch::read, unwrap_or, Epoch::write; then the comparison.
DialExchange(p) ==
    /\ pc[p] = "handshake"
    /\ LET c == Unwrap(dsock[p])
           s == conns[c]
       IN /\ Len(s.l2d) >= 2
          /\ LET peer_epoch == EpochOfWords(s.l2d)
                 my_epoch == UnwrapOr(epoch[p], peer_epoch)
                 cs == [conns EXCEPT
                          ![c].l2d = SubSeq(s.l2d, 3, Len(s.l2d)),
                          ![c].d2l = IF s.lOpen THEN s.d2l \o EpochWords(my_epoch) ELSE << >>,
                          ![c].dWrote = Some(my_epoch)]
             IN DialCompare(p, c, cs, peer_epoch)

\* Retry::default() with no max_tries: the retry of the handshake never
\* runs out of tries.
DialRetryExhausted(failed) == FALSE

\* A retry that gives up: the failed handshake ends the attempt.
DialFailGivesUp(p) ==
    /\ pc[p] = "handshake"
    /\ LET c == Unwrap(dsock[p])
       IN /\ EndOfStream(conns[c].lOpen, conns[c].l2d)
          /\ ReturnErr(p, Reconnect(Acceptor(c)), CloseEnd(conns, c, p))

\* handshake fails: the far end is gone, or a read or write error of the
\* fault budget; the stream is dropped and the retry connects again.
DialFail(p) ==
    /\ pc[p] = "handshake"
    /\ ~DialRetryExhausted(tries[p])
    /\ LET c == Unwrap(dsock[p])
       IN /\ EndOfStream(conns[c].lOpen, conns[c].l2d) \/ budget.io > 0
          /\ budget' = IF EndOfStream(conns[c].lOpen, conns[c].l2d)
                       THEN budget ELSE [budget EXCEPT !.io = @ - 1]
          /\ conns' = CloseEnd(conns, c, p)
    /\ dsock' = [dsock EXCEPT ![p] = None]
    /\ pc' = [pc EXCEPT ![p] = "lower"]
    /\ tries' = [tries EXCEPT ![p] = 0]
    /\ UNCHANGED << n, addresses, bench, handoff, epoch, lower, slots, asock, backlog, err,
                    result, minted, seen >>

\* A create_sockets that starts accept_higher after the first dialed peer.
DialDoneEarly(p) ==
    /\ pc[p] = "lower"
    /\ p > 0
    /\ Len(lower[p]) >= 1
    /\ IsSome(epoch[p])
    /\ pc' = [pc EXCEPT ![p] = "higher"]
    /\ slots' = [slots EXCEPT ![p] = EmptySlots(p)]
    /\ UNCHANGED << n, addresses, bench, handoff, tries, epoch, lower, dsock, asock, backlog, err,
                    result, conns, minted, budget, seen >>

\* connect_lower returns (my_epoch, sockets); accept_higher starts.
DialDone(p) ==
    /\ pc[p] = "lower"
    /\ p > 0
    /\ Len(lower[p]) >= p
    /\ IsSome(epoch[p])
    /\ pc' = [pc EXCEPT ![p] = "higher"]
    /\ slots' = [slots EXCEPT ![p] = EmptySlots(p)]
    /\ UNCHANGED << n, addresses, bench, handoff, tries, epoch, lower, dsock, asock, backlog, err,
                    result, conns, minted, budget, seen >>

\* ------------------------------------------------------------- accept_higher

\* sockets.iter().any(|s| s.is_none())
\* A loop condition that always holds: `while true`.
AnyEmptyAlways(ss) == TRUE

AnyEmpty(ss) == \E i \in 1 .. Len(ss) : IsNone(ss[i])

\* accept_higher without the check of the slot.
SlotFilledUnchecked(p, index) == FALSE

\* A check of the indexes read so far instead of the slots filled.
SlotFilledSeen(p, index) == index \in seen[p].once

\* sockets[index - offset].is_some()
SlotFilled(p, index) == IsSome(slots[p][index - (p + 1) + 1])

\* accept_higher whose exchange_epochs reads the peer's epoch before it
\* writes its own.
AcceptReadFirst(p) ==
    /\ pc[p] = "higher"
    /\ AnyEmpty(slots[p])
    /\ backlog[p] # << >>
    /\ LET c == Head(backlog[p])
           s == conns[c]
           index == Head(s.d2l)
           cs == [conns EXCEPT ![c].d2l = Tail(s.d2l)]
       IN IF SlotFilled(p, index)
          THEN ReturnErr(p, Reconnect(index), cs)
          ELSE /\ conns' = cs
               /\ backlog' = [backlog EXCEPT ![p] = Tail(@)]
               /\ asock' = [asock EXCEPT ![p] = Some([index |-> index, sock |-> c])]
               /\ pc' = [pc EXCEPT ![p] = "exchange"]
               /\ seen' = [seen EXCEPT ![p] = Observe(@, index)]
               /\ UNCHANGED << n, addresses, bench, handoff, tries, epoch, lower, dsock, slots, err,
                               result, minted, budget >>

\* accept_higher that begins exchange_epochs, writing my_epoch, before it
\* looks at the slot.
AcceptWritesFirst(p) ==
    /\ pc[p] = "higher"
    /\ AnyEmpty(slots[p])
    /\ backlog[p] # << >>
    /\ LET c == Head(backlog[p])
           s == conns[c]
           index == Head(s.d2l)
           cs == [conns EXCEPT
                    ![c].d2l = Tail(s.d2l),
                    ![c].l2d = IF s.dOpen THEN EpochWords(Unwrap(epoch[p])) ELSE << >>,
                    ![c].lWrote = epoch[p]]
       IN IF SlotFilled(p, index)
          THEN ReturnErr(p, Reconnect(index), cs)
          ELSE /\ conns' = cs
               /\ backlog' = [backlog EXCEPT ![p] = Tail(@)]
               /\ asock' = [asock EXCEPT ![p] = Some([index |-> index, sock |-> c])]
               /\ pc' = [pc EXCEPT ![p] = "exchange"]
               /\ seen' = [seen EXCEPT ![p] = Observe(@, index)]
               /\ UNCHANGED << n, addresses, bench, handoff, tries, epoch, lower, dsock, slots, err,
                               result, minted, budget >>

\* accept: listener.accept and read_u64 of the peer index; then the check of
\* the slot; then exchange_epochs writes my_epoch.
Accept(p) ==
    /\ pc[p] = "higher"
    /\ AnyEmpty(slots[p])
    /\ backlog[p] # << >>
    /\ LET c == Head(backlog[p])
           s == conns[c]
           index == Head(s.d2l)
           cs == [conns EXCEPT ![c].d2l = Tail(s.d2l)]
       IN IF SlotFilled(p, index)
          THEN ReturnErr(p, Reconnect(index), cs)
          ELSE /\ conns' = [cs EXCEPT
                              ![c].l2d = IF s.dOpen THEN EpochWords(Unwrap(epoch[p])) ELSE << >>,
                              ![c].lWrote = epoch[p]]
               /\ backlog' = [backlog EXCEPT ![p] = Tail(@)]
               /\ asock' = [asock EXCEPT ![p] = Some([index |-> index, sock |-> c])]
               /\ pc' = [pc EXCEPT ![p] = "exchange"]
               /\ seen' = [seen EXCEPT ![p] = Observe(@, index)]
               /\ UNCHANGED << n, addresses, bench, handoff, tries, epoch, lower, dsock, slots, err,
                               result, minted, budget >>

\* accept fails (accept, set_nodelay or read_u64 error): logged, `continue`.
AcceptFail(p) ==
    /\ pc[p] = "higher"
    /\ AnyEmpty(slots[p])
    /\ backlog[p] # << >>
    /\ LET c == Head(backlog[p])
       IN /\ ~conns[c].dOpen \/ budget.io > 0
          /\ budget' = IF conns[c].dOpen THEN [budget EXCEPT !.io = @ - 1] ELSE budget
          /\ conns' = CloseEnd(conns, c, p)
    /\ backlog' = [backlog EXCEPT ![p] = Tail(@)]
    /\ UNCHANGED << n, addresses, bench, handoff, pc, tries, epoch, lower, dsock, slots, asock, err,
                    result, minted, seen >>

\* The stream is dropped and the loop accepts again.
AcceptContinue(p, c, cs) ==
    /\ conns' = CloseEnd(cs, c, p)
    /\ asock' = [asock EXCEPT ![p] = None]
    /\ pc' = [pc EXCEPT ![p] = "higher"]
    /\ UNCHANGED << n, addresses, bench, handoff, tries, epoch, lower, dsock, slots, backlog, err,
                    result, minted, budget, seen >>

\* sockets[0] = Some(sock): the stream stored without regard to the index.
AcceptStoreFirst(p, index, c, cs) ==
    /\ conns' = cs
    /\ slots' = [slots EXCEPT ![p][1] = Some(c)]
    /\ asock' = [asock EXCEPT ![p] = None]
    /\ pc' = [pc EXCEPT ![p] = "higher"]
    /\ UNCHANGED << n, addresses, bench, handoff, tries, epoch, lower, dsock, backlog, err, result,
                    minted, budget, seen >>

\* sockets[index - offset] = Some(sock)
AcceptStore(p, index, c, cs) ==
    /\ conns' = cs
    /\ slots' = [slots EXCEPT ![p][index - (p + 1) + 1] = Some(c)]
    /\ asock' = [asock EXCEPT ![p] = None]
    /\ pc' = [pc EXCEPT ![p] = "higher"]
    /\ UNCHANGED << n, addresses, bench, handoff, tries, epoch, lower, dsock, backlog, err, result,
                    minted, budget, seen >>

\* accept_higher that refuses a greater epoch as it refuses a smaller one.
AcceptCompareLenient(p, index, c, cs, peer_epoch) ==
    LET my == Unwrap(epoch[p])
    IN CASE EpochCmp(peer_epoch, my) = "Equal" -> AcceptStore(p, index, c, cs)
         [] OTHER -> AcceptContinue(p, c, cs)

\* accept_higher that fails on every epoch other than its own.
AcceptCompareStrict(p, index, c, cs, peer_epoch) ==
    LET my == Unwrap(epoch[p])
    IN CASE EpochCmp(peer_epoch, my) = "Equal" -> AcceptStore(p, index, c, cs)
         [] OTHER -> ReturnErr(p, EpochMismatch(index, peer_epoch, my), cs)

\* accept_higher that also keeps the stream of a peer with a smaller epoch.
AcceptCompareKeepLess(p, index, c, cs, peer_epoch) ==
    LET my == Unwrap(epoch[p])
    IN CASE EpochCmp(peer_epoch, my) = "Greater" ->
               ReturnErr(p, EpochMismatch(index, peer_epoch, my), cs)
         [] OTHER -> AcceptStore(p, index, c, cs)

\* accept_higher with the arms of the comparison exchanged: it fails on a
\* smaller epoch and refuses a greater one.
AcceptCompareReversed(p, index, c, cs, peer_epoch) ==
    LET my == Unwrap(epoch[p])
    IN CASE EpochCmp(peer_epoch, my) = "Greater" -> AcceptContinue(p, c, cs)
         [] EpochCmp(peer_epoch, my) = "Less" ->
               ReturnErr(p, EpochMismatch(index, peer_epoch, my), cs)
         [] OTHER -> AcceptStore(p, index, c, cs)

\* What accept_higher does with the peer_epoch of exchange_epochs.
AcceptCompare(p, index, c, cs, peer_epoch) ==
    LET my == Unwrap(epoch[p])
    IN CASE EpochCmp(peer_epoch, my) = "Less" -> AcceptContinue(p, c, cs)
         [] EpochCmp(peer_epoch, my) = "Greater" ->
               ReturnErr(p, EpochMismatch(index, peer_epoch, my), cs)
         [] OTHER -> AcceptStore(p, index, c, cs)

\* exchange_epochs: Epoch::read of the peer's epoch; then the comparison.
AcceptExchange(p) ==
    /\ pc[p] = "exchange"
    /\ LET a == Unwrap(asock[p])
           s == conns[a.sock]
       IN /\ Len(s.d2l) >= 2
          /\ LET peer_epoch == EpochOfWords(s.d2l)
                 cs == [conns EXCEPT ![a.sock].d2l = SubSeq(s.d2l, 3, Len(s.d2l))]
             IN AcceptCompare(p, a.index, a.sock, cs, peer_epoch)

\* An accept_higher that propagates the error of exchange_epochs with `?`.
ExchangeFailEnds(p) ==
    /\ pc[p] = "exchange"
    /\ LET a == Unwrap(asock[p])
       IN /\ EndOfStream(conns[a.sock].dOpen, conns[a.sock].d2l)
          /\ ReturnErr(p, Reconnect(a.index), CloseEnd(conns, a.sock, p))

\* exchange_epochs fails: the far end is gone, or a read or write error of
\* the fault budget; logged, `continue`.
ExchangeFail(p) ==
    /\ pc[p] = "exchange"
    /\ LET c == Unwrap(asock[p]).sock
       IN /\ EndOfStream(conns[c].dOpen, conns[c].d2l) \/ budget.io > 0
          /\ budget' = IF EndOfStream(conns[c].dOpen, conns[c].d2l)
                       THEN budget ELSE [budget EXCEPT !.io = @ - 1]
          /\ conns' = CloseEnd(conns, c, p)
    /\ asock' = [asock EXCEPT ![p] = None]
    /\ pc' = [pc EXCEPT ![p] = "higher"]
    /\ UNCHANGED << n, addresses, bench, handoff, tries, epoch, lower, dsock, slots, backlog, err,
                    result, minted, seen >>

\* The accepted streams chained before the dialed ones.
ConnectionsHigherFirst(lo, hi) ==
    [i \in 1 .. Len(hi) |-> Some(hi[i])] \o << None >> \o [i \in 1 .. Len(lo) |-> Some(lo[i])]

\* The result without .chain([None]).
ConnectionsNoSelf(lo, hi) ==
    [i \in 1 .. Len(lo) |-> Some(lo[i])] \o [i \in 1 .. Len(hi) |-> Some(hi[i])]

\* connections_lower.chain([None]).chain(connections_higher)
Connections(lo, hi) ==
    [i \in 1 .. Len(lo) |-> Some(lo[i])] \o << None >> \o [i \in 1 .. Len(hi) |-> Some(hi[i])]

\* The accepted streams unwrapped from the last slot to the first.
UnwrappedReversed(ss) == [i \in 1 .. Len(ss) |-> Unwrap(ss[Len(ss) + 1 - i])]

\* accept_higher's result: sockets.into_iter().map(|s| s.unwrap())
Unwrapped(ss) == [i \in 1 .. Len(ss) |-> Unwrap(ss[i])]

\* A create_sockets that returns Ok while its listener lives on.
ReturnOkKeepListener(p) ==
    /\ pc[p] = "higher"
    /\ ~AnyEmpty(slots[p])
    /\ result' = [result EXCEPT ![p] = Connections(lower[p], Unwrapped(slots[p]))]
    /\ lower' = [lower EXCEPT ![p] = << >>]
    /\ slots' = [slots EXCEPT ![p] = << >>]
    /\ pc' = [pc EXCEPT ![p] = "returned"]
    /\ seen' = [seen EXCEPT ![p] = NoneSeen]
    /\ UNCHANGED << n, addresses, bench, handoff, tries, epoch, dsock, asock, err, minted, budget,
                    conns, backlog >>

\* accept_higher returns once no slot is empty; create_sockets returns Ok
\* and its listener is dropped.
ReturnOk(p) ==
    /\ pc[p] = "higher"
    /\ ~AnyEmpty(slots[p])
    /\ result' = [result EXCEPT ![p] = Connections(lower[p], Unwrapped(slots[p]))]
    /\ conns' = DropListener(conns, p)
    /\ backlog' = [backlog EXCEPT ![p] = << >>]
    /\ lower' = [lower EXCEPT ![p] = << >>]
    /\ slots' = [slots EXCEPT ![p] = << >>]
    /\ pc' = [pc EXCEPT ![p] = "returned"]
    /\ seen' = [seen EXCEPT ![p] = NoneSeen]
    /\ UNCHANGED << n, addresses, bench, handoff, tries, epoch, dsock, asock, err, minted, budget >>

\* ------------------------------------------------------ initialize_networking

\* A loop that calls create_sockets again after EpochMismatch alone.
RetryMismatchOnly(p) ==
    /\ pc[p] = "failed"
    /\ Unwrap(err[p]).kind = "EpochMismatch"
    /\ pc' = [pc EXCEPT ![p] = "bind"]
    /\ err' = [err EXCEPT ![p] = None]
    /\ UNCHANGED << n, addresses, bench, handoff, tries, epoch, lower, dsock, slots, asock, backlog,
                    result, conns, minted, budget, seen >>

\* Err(error) => info!(..; retrying): the loop calls create_sockets again.
Retry(p) ==
    /\ pc[p] = "failed"
    /\ ~IsFatal(Unwrap(err[p]))
    /\ pc' = [pc EXCEPT ![p] = "bind"]
    /\ err' = [err EXCEPT ![p] = None]
    /\ UNCHANGED << n, addresses, bench, handoff, tries, epoch, lower, dsock, slots, asock, backlog,
                    result, conns, minted, budget, seen >>

\* Err(error) if error.is_fatal() => bail!
Bail(p) ==
    /\ pc[p] = "failed"
    /\ IsFatal(Unwrap(err[p]))
    /\ pc' = [pc EXCEPT ![p] = "aborted"]
    /\ UNCHANGED << n, addresses, bench, handoff, tries, epoch, lower, dsock, slots, asock, backlog,
                    err, result, conns, minted, budget, seen >>

\* ---------------------------------------------------------------- environment

\* The process exits with everything it holds and is started again.
Restart(p) ==
    /\ Abandon(p, conns)
    /\ pc' = [pc EXCEPT ![p] = "bind"]
    /\ err' = [err EXCEPT ![p] = None]
    /\ result' = [result EXCEPT ![p] = << >>]
    /\ handoff' = [handoff EXCEPT ![p] = NotHanded]

\* A process crashes at any point of the protocol or after it.
Crash(p) ==
    /\ pc[p] \in {"lower", "handshake", "higher", "exchange", "returned"}
    /\ budget.crash > 0
    /\ budget' = [budget EXCEPT !.crash = @ - 1]
    /\ Restart(p)
    /\ UNCHANGED << n, addresses, bench, minted >>

\* The streams create_sockets returned, in the order of the vector.
Held(p) == {Unwrap(result[p][i]) : i \in {j \in 1 .. Len(result[p]) : IsSome(result[p][j])}}

\* A process that goes on working on a stream to a crashed peer.
DoomedNever(p) == FALSE

\* A process that returned with a stream to a crashed peer is doomed: it
\* crashes when Timely initializes on the broken stream.
Doomed(p) == pc[p] = "returned" /\ \E c \in Held(p) : FarEndClosed(c, p)

DoomCrash(p) ==
    /\ Doomed(p)
    /\ Restart(p)
    /\ UNCHANGED << n, addresses, bench, minted, budget >>

\* ------------------------------------------------------------- specification

\* The faults of a behaviour: crashes and I/O failures, or crashes while
\* binds may fail.
Scenarios ==
    { [crash |-> MaxCrashes, io |-> MaxIoFail, bind |-> FALSE],
      [crash |-> MaxCrashes, io |-> 0, bind |-> TRUE] }

Boot(N, b, a) ==
    /\ n = N
    /\ addresses = a
    /\ handoff = [p \in Proc |-> NotHanded]
    /\ bench = NoBench
    /\ pc = [p \in Proc |-> IF p < N THEN "bind" ELSE "absent"]
    /\ tries = [p \in Proc |-> 0]
    /\ epoch = [p \in Proc |-> None]
    /\ lower = [p \in Proc |-> << >>]
    /\ dsock = [p \in Proc |-> None]
    /\ slots = [p \in Proc |-> << >>]
    /\ asock = [p \in Proc |-> None]
    /\ backlog = [p \in Proc |-> << >>]
    /\ err = [p \in Proc |-> None]
    /\ result = [p \in Proc |-> << >>]
    /\ conns = << >>
    /\ minted = {}
    /\ budget = b
    /\ seen = [p \in Proc |-> NoneSeen]

\* Every process is given a host and a port.
Start(N, b) == Boot(N, b, [p \in Proc |-> "host:port"])

Init == \E N \in 1 .. MaxN : \E b \in Scenarios : Start(N, b)

Next ==
    \E p \in Proc :
        \/ BindOk(p)
        \/ BindFail(p)
        \/ Mint(p)
        \/ DialConnect(p)
        \/ DialExchange(p)
        \/ DialFail(p)
        \/ DialDone(p)
        \/ Accept(p)
        \/ AcceptFail(p)
        \/ AcceptExchange(p)
        \/ ExchangeFail(p)
        \/ ReturnOk(p)
        \/ Retry(p)
        \/ Bail(p)
        \/ Crash(p)
        \/ DoomCrash(p)

Spec == Init /\ [][Next]_vars

\* No crash, no I/O failure, no bind failure: the steps of the protocol alone.
InitClean == \E N \in 1 .. MaxN : Start(N, [crash |-> 0, io |-> 0, bind |-> FALSE])

NextClean ==
    \E p \in Proc :
        \/ BindOk(p)
        \/ Mint(p)
        \/ DialConnect(p)
        \/ DialExchange(p)
        \/ DialDone(p)
        \/ Accept(p)
        \/ AcceptExchange(p)
        \/ ReturnOk(p)

\* The steps NextClean leaves out: faults, and the handling of errors.
OtherStep ==
    \E p \in Proc :
        \/ BindFail(p)
        \/ DialFail(p)
        \/ AcceptFail(p)
        \/ ExchangeFail(p)
        \/ Retry(p)
        \/ Bail(p)
        \/ Crash(p)
        \/ DoomCrash(p)

\* Every process is its own task: a step that stays possible is taken.
SpecClean == InitClean /\ [][NextClean]_vars /\ \A p \in Proc : WF_vars(NextClean /\ pc'[p] # pc[p])

\* A fleet one larger than MaxN, where a listener other than process 0 has
\* two higher peers; crashes, no injected I/O or bind failure.
InitWide == Start(MaxN + 1, [crash |-> MaxCrashes, io |-> 0, bind |-> FALSE])

\* The steps of a fleet whose binds succeed.
NextBound ==
    \E p \in Proc :
        \/ BindOk(p)
        \/ Mint(p)
        \/ DialConnect(p)
        \/ DialExchange(p)
        \/ DialFail(p)
        \/ DialDone(p)
        \/ Accept(p)
        \/ AcceptFail(p)
        \/ AcceptExchange(p)
        \/ ExchangeFail(p)
        \/ ReturnOk(p)
        \/ Retry(p)
        \/ Crash(p)
        \/ DoomCrash(p)

SpecWide == InitWide /\ [][NextBound]_vars

\* A step of process p that injects no fault: the protocol, the retry of
\* the loop, and the crash of a doomed process.
Progress(p) ==
    /\ \/ BindOk(p)
       \/ Mint(p)
       \/ DialConnect(p)
       \/ DialExchange(p)
       \/ DialFail(p)
       \/ DialDone(p)
       \/ Accept(p)
       \/ AcceptFail(p)
       \/ AcceptExchange(p)
       \/ ExchangeFail(p)
       \/ ReturnOk(p)
       \/ Retry(p)
       \/ DoomCrash(p)
    /\ budget' = budget

\* Crashes and I/O failures until the budget is used up; every process is
\* scheduled, and a doomed process crashes.
InitStable == \E N \in 1 .. MaxN : Start(N, [crash |-> MaxCrashes, io |-> MaxIoFail, bind |-> FALSE])

SpecStable == InitStable /\ [][NextBound]_vars /\ \A p \in Proc : WF_vars(Progress(p))

\* ------------------------------------------- initialize_networking, the handoff

\* Both ends of a stream are of the transport of the address that was
\* dialed: Stream::connect picks it, Listener::accept hands out its own.
StreamFamily(c) == FamilyOf(addresses[Acceptor(c)])

IsTcp(c) == StreamFamily(c) = "tcp"
IsUnix(c) == StreamFamily(c) = "unix"

\* sockets.iter().filter_map(|s| s.as_ref())
FilterSome(v) == {Unwrap(v[i]) : i \in {j \in 1 .. Len(v) : IsSome(v[j])}}

\* unwrap_tcp().into_std() / unwrap_unix().into_std(): the std socket of a
\* tokio stream is still in non-blocking mode.
IntoStd(c) == [stream |-> c, family |-> StreamFamily(c), nonblocking |-> TRUE]

\* sockets.into_iter().map(|s| s.map(..).transpose()).collect()
Collect(v) == [i \in 1 .. Len(v) |-> IF IsNone(v[i]) THEN None ELSE Some(IntoStd(Unwrap(v[i])))]

\* for s in &sockets { if let Some(s) = s { s.set_nonblocking(false) } }
SetBlocking(v) ==
    [i \in 1 .. Len(v) |->
        IF IsNone(v[i]) THEN None ELSE Some([Unwrap(v[i]) EXCEPT !.nonblocking = FALSE])]

\* The streams of a process that leaves initialize_networking with an error
\* are dropped with it.
HandoffErr(p, e) ==
    /\ handoff' = [handoff EXCEPT ![p] = [sockets |-> None, error |-> Some(e)]]
    /\ pc' = [pc EXCEPT ![p] = "aborted"]
    /\ conns' = DropAll(conns, p)
    /\ result' = [result EXCEPT ![p] = << >>]
    /\ UNCHANGED << n, addresses, bench, tries, epoch, lower, dsock, slots, asock,
                    backlog, err, minted, budget, seen >>

\* All streams are TCP, or all are Unix: initialize_networking_inner switches
\* each to blocking mode and calls initialize_networking_from_sockets.
Handoff(p) ==
    /\ pc[p] = "returned"
    /\ handoff[p] = NotHanded
    /\ \/ \A c \in FilterSome(result[p]) : IsTcp(c)
       \/ \A c \in FilterSome(result[p]) : IsUnix(c)
    /\ handoff' = [handoff EXCEPT ![p] =
            [sockets |-> Some(SetBlocking(Collect(result[p]))), error |-> None]]
    /\ UNCHANGED << n, addresses, bench, pc, tries, epoch, lower, dsock, slots, asock,
                    backlog, err, result, conns, minted, budget, seen >>

\* into_std or set_nonblocking fails on one of the streams: the error is
\* returned before the initializer is called.
HandoffFail(p) ==
    /\ pc[p] = "returned"
    /\ handoff[p] = NotHanded
    /\ FilterSome(result[p]) # {}
    /\ \/ \A c \in FilterSome(result[p]) : IsTcp(c)
       \/ \A c \in FilterSome(result[p]) : IsUnix(c)
    /\ \E e \in {"failed to get standard sockets from tokio sockets",
                 "failed to set socket to non-blocking"} : HandoffErr(p, e)

\* A mix that starts the protocol again instead of returning the error.
HandoffMixedRestart(p) ==
    /\ pc[p] = "returned"
    /\ handoff[p] = NotHanded
    /\ ~ \A c \in FilterSome(result[p]) : IsTcp(c)
    /\ ~ \A c \in FilterSome(result[p]) : IsUnix(c)
    /\ Restart(p)
    /\ UNCHANGED << n, addresses, bench, minted, budget >>

\* anyhow::bail!("cannot mix TCP and Unix streams")
HandoffMixed(p) ==
    /\ pc[p] = "returned"
    /\ handoff[p] = NotHanded
    /\ ~ \A c \in FilterSome(result[p]) : IsTcp(c)
    /\ ~ \A c \in FilterSome(result[p]) : IsUnix(c)
    /\ HandoffErr(p, "cannot mix TCP and Unix streams")

\* Every address list of the forms above, for fleets up to MaxN; crashes,
\* no injected I/O or bind failure.
InitFamily ==
    \E N \in 1 .. MaxN : \E a \in [Proc -> AddressForms] :
        /\ \A p \in Proc : p >= N => a[p] = "host:port"
        /\ Boot(N, [crash |-> MaxCrashes, io |-> 0, bind |-> FALSE], a)

NextFamily ==
    \/ NextBound
    \/ \E p \in Proc :
        \/ Handoff(p)
        \/ HandoffFail(p)
        \/ HandoffMixed(p)

SpecFamily == InitFamily /\ [][NextFamily]_vars

\* ------------------------------------------------------------------- claims

Returned(p) == pc[p] = "returned"

\* Stream c is in connect_lower's list or in the returned vector of its dialer.
KeptByDialer(c) ==
    \/ \E i \in 1 .. Len(lower[Dialer(c)]) : lower[Dialer(c)][i] = c
    \/ Returned(Dialer(c)) /\ c \in Held(Dialer(c))

\* Stream c is in a slot or in the returned vector of its listener.
KeptByAcceptor(c) ==
    \/ \E i \in 1 .. Len(slots[Acceptor(c)]) : slots[Acceptor(c)][i] = Some(c)
    \/ Returned(Acceptor(c)) /\ c \in Held(Acceptor(c))

\* C1: a successful create_sockets returns n entries; entry my_index is None,
\* the my_index entries before it are streams this process dialed and the
\* n - my_index - 1 entries after it are streams it accepted.
C1_ResultShape ==
    \A p \in Fleet :
        Returned(p) =>
            /\ Len(result[p]) = n
            /\ result[p][p + 1] = None
            /\ \A k \in Fleet :
                /\ k < p => IsSome(result[p][k + 1]) /\ Dialer(Unwrap(result[p][k + 1])) = p
                /\ k > p => IsSome(result[p][k + 1]) /\ Acceptor(Unwrap(result[p][k + 1])) = p

\* C1 witness: in a fleet of three, process 1 returned a lower and a higher stream.
C1_Witness == n = 3 /\ Returned(1) /\ Len(result[1]) = 3

\* C2: a stream is kept (pushed by its dialer, or stored by its listener)
\* only after an exchange in which the epoch the dialer wrote equals the
\* epoch the listener wrote.
C2_KeptEqualEpochs ==
    \A c \in DOMAIN conns :
        (KeptByDialer(c) \/ KeptByAcceptor(c)) =>
            /\ IsSome(conns[c].dWrote)
            /\ conns[c].dWrote = conns[c].lWrote

\* C2 witness: a stream between processes 1 and 2 that both sides keep.
C2_Witness ==
    \E c \in DOMAIN conns :
        Dialer(c) = 2 /\ Acceptor(c) = 1 /\ KeptByDialer(c) /\ KeptByAcceptor(c)

\* Every process of the fleet returned, and every returned stream is held
\* at its far end by the peer's current instance.
MeshOfCurrentInstances ==
    \A p \in Fleet :
        /\ Returned(p)
        /\ \A c \in Held(p) :
            /\ conns[c].dOpen /\ conns[c].lOpen
            /\ c \in Held(Dialer(c)) /\ c \in Held(Acceptor(c))

\* C3: when all processes have returned and every stream joins two current
\* instances, all processes hold the same epoch.
C3_SingleGeneration ==
    MeshOfCurrentInstances =>
        \A p, q \in Fleet : IsSome(epoch[p]) /\ epoch[p] = epoch[q]

\* C3 witness: a complete mesh of three returned after a process crashed.
C3_Witness == n = 3 /\ MeshOfCurrentInstances /\ budget.crash < MaxCrashes /\ ~budget.bind

\* A mint of this step is greater than every epoch minted before.
MintGreater ==
    \A e \in minted' \ minted : \A m \in minted : EpochCmp(e, m) = "Greater"

\* Process 0 is to mint and the model has no epoch left.
OutOfEpochs == pc[0] = "lower" /\ MintChoices = {}

AllReturned == \A p \in Fleet : Returned(p)

\* The epochs smaller than e.
Earlier(e) == {x \in Epoch : EpochCmp(x, e) = "Less"}

\* The clock never went back and no epoch was skipped: process 0 holds the
\* greatest epoch minted, and every smaller epoch has been minted.
ClockSteady ==
    /\ \A e \in minted : Earlier(e) \subseteq minted
    /\ IsSome(epoch[0]) => \A m \in minted : EpochCmp(m, Unwrap(epoch[0])) # "Greater"

\* C4: the crashes and I/O failures end, every process keeps taking its
\* steps and doomed processes crash and restart. If from some point on every
\* mint is greater than all earlier epochs, then eventually every process has
\* returned from create_sockets and stays returned, unless the epochs of the
\* model run out; and if every mint is the next epoch, they do not run out
\* and every process returns.
C4_Progress ==
    /\ <>[][MintGreater]_vars => (<>[] AllReturned \/ <>[] OutOfEpochs)
    /\ [] ClockSteady => <>[] AllReturned

\* C4 witness: a fleet of three all returned after a crash, an I/O failure
\* and a second mint.
C4_Witness ==
    /\ n = 3 /\ AllReturned
    /\ budget.crash = 0 /\ budget.io = 0
    /\ Cardinality(minted) >= 2

\* No attempt has failed, at most one epoch was minted and every process
\* that holds an epoch holds that one; no fault or error step is possible.
CleanSoFar ==
    /\ \A p \in Fleet : pc[p] \notin {"failed", "aborted"} /\ err[p] = None
    /\ Cardinality(minted) <= 1
    /\ \A p \in Fleet : IsSome(epoch[p]) => Unwrap(epoch[p]) \in minted
    /\ ~ENABLED OtherStep

\* Every process returned with the one minted epoch; n*(n-1) stream ends
\* are kept, on n*(n-1)/2 connections that are open on both sides.
CleanMesh ==
    /\ \A p \in Fleet : Returned(p) /\ IsSome(epoch[p]) /\ Cardinality(Held(p)) = n - 1
    /\ Cardinality(minted) = 1
    /\ 2 * Cardinality(DOMAIN conns) = n * (n - 1)
    /\ \A c \in DOMAIN conns :
        conns[c].dOpen /\ conns[c].lOpen /\ KeptByDialer(c) /\ KeptByAcceptor(c)

\* C5: with no crash and no failure, under every interleaving no attempt
\* fails, process 0 mints one epoch which every process holds, and the fleet
\* ends with every process returned from its first attempt holding n-1 streams.
C5_CleanBringUp == [] CleanSoFar /\ <>[] CleanMesh

\* C5 witness: the clean mesh of three processes.
C5_Witness == n = 3 /\ CleanMesh

\* What listener p holds for peer k: the slot during accept_higher, the
\* entry of the vector after the return.
SlotOf(p, k) ==
    IF pc[p] \in {"higher", "exchange"} THEN slots[p][k - p]
    ELSE IF Returned(p) THEN result[p][k + 1]
    ELSE None

\* The peer index the next accepted connection of p announces.
Announced(p) == Head(conns[Head(backlog[p])].d2l)

\* C7: once process 0 has stored the stream of an instance of p that has
\* since gone, then as long as process 0 is in that attempt (holds that
\* epoch) its entry for p stays that stream; when it reads p's index from
\* another connection it fails with Reconnect(p).
C7_NoRejoin ==
    [][\A k \in 1 .. (n - 1) :
        (/\ IsSome(SlotOf(0, k))
         /\ ~conns[Unwrap(SlotOf(0, k))].dOpen
         /\ pc'[0] # pc[0] \/ backlog'[0] # backlog[0] \/ slots'[0] # slots[0])
        => /\ pc'[0] \in {"higher", "exchange", "returned"} =>
                SlotOf(0, k)' = SlotOf(0, k) /\ epoch'[0] = epoch[0]
           /\ (/\ pc[0] = "higher" /\ backlog[0] # << >>
               /\ pc'[0] \in {"exchange", "failed"}
               /\ Announced(0) = k)
              => pc'[0] = "failed" /\ err'[0] = Some(Reconnect(k))]_vars

\* C7 witness: the restarted process 1 dialed process 0, which had stored
\* the stream of the earlier instance of 1, and process 0 failed with Reconnect.
C7_Witness ==
    /\ pc[0] = "failed" /\ err[0] = Some(Reconnect(1))
    /\ pc[1] = "handshake"
    /\ budget.crash < MaxCrashes

\* C8: the loop of initialize_networking ends with the vector on Ok, ends
\* with no further attempt on an error that is_fatal, and starts a new
\* attempt after any other error; is_fatal holds for Bind alone, and a
\* retry after EpochMismatch or Reconnect is always possible.
C8_DriverLoop ==
    /\ [](\A p \in Fleet :
            /\ IsSome(err[p]) => (IsFatal(Unwrap(err[p])) <=> Unwrap(err[p]).kind = "Bind")
            /\ pc[p] = "aborted" => IsSome(err[p]) /\ Unwrap(err[p]).kind = "Bind"
            /\ pc[p] = "failed" => IsSome(err[p])
            /\ (pc[p] = "failed" /\ Unwrap(err[p]).kind \in {"EpochMismatch", "Reconnect"})
                    => ENABLED Retry(p))
    /\ [][\A p \in Fleet :
            /\ (pc[p] = "failed" /\ pc'[p] # "failed") =>
                    IF Unwrap(err[p]).kind = "Bind"
                    THEN pc'[p] = "aborted" /\ err'[p] = err[p]
                    ELSE pc'[p] = "bind" /\ err'[p] = None
            /\ pc[p] = "aborted" => pc'[p] = "aborted"
            /\ (Returned(p) /\ pc'[p] # "returned") =>
                    budget'.crash < budget.crash \/ Doomed(p)
            /\ (Returned(p) /\ pc'[p] = "returned") => result'[p] = result[p]]_vars

\* C8 witness: one process stopped on the fatal Bind error while another
\* is about to retry after Reconnect.
C8_Witness ==
    \E p, q \in Fleet :
        /\ pc[p] = "aborted"
        /\ pc[q] = "failed" /\ Unwrap(err[q]).kind = "Reconnect"

\* Process p holds nothing of an attempt: no epoch, no stream, no queue.
HoldsNothing(p) ==
    /\ epoch[p] = None
    /\ lower[p] = << >> /\ dsock[p] = None
    /\ slots[p] = << >> /\ asock[p] = None
    /\ backlog[p] = << >>
    /\ \A c \in DOMAIN conns :
        /\ Dialer(c) = p => ~conns[c].dOpen
        /\ Acceptor(c) = p => ~conns[c].lOpen

\* C9: the bind is tried at most MaxTries times in an attempt; after fewer
\* failures it can still succeed and the attempt goes on without error; the
\* MaxTries-th failure ends the attempt with Bind, before anything else
\* of the attempt (epoch, dialing, accepting) has happened.
C9_BoundedBind ==
    /\ [](\A p \in Fleet :
            /\ tries[p] < MaxTries
            /\ pc[p] = "bind" => HoldsNothing(p) /\ ENABLED BindOk(p)
            /\ (pc[p] \in {"failed", "aborted"} /\ Unwrap(err[p]).kind = "Bind") => HoldsNothing(p))
    /\ [][\A p \in Fleet :
            /\ (pc[p] = "bind" /\ pc'[p] = "bind" /\ tries'[p] # tries[p]) =>
                    tries'[p] = tries[p] + 1
            /\ (pc[p] = "bind" /\ pc'[p] = "lower") =>
                    err'[p] = None /\ tries[p] < MaxTries
            /\ (pc[p] = "bind" /\ pc'[p] \notin {"bind", "lower"}) =>
                    /\ tries[p] = MaxTries - 1
                    /\ pc'[p] = "failed" /\ err'[p] = Some(BindError)
            /\ (IsSome(err'[p]) /\ Unwrap(err'[p]).kind = "Bind" /\ err[p] = None) =>
                    pc[p] = "bind" /\ tries[p] = MaxTries - 1]_vars

\* C9 witness: process 0 bound its listener and minted, process 2 has
\* failed five tries, and process 1 failed ten tries and stopped with Bind.
C9_Witness ==
    /\ n = 3
    /\ pc[0] = "higher" /\ IsSome(epoch[0])
    /\ tries[2] = 5 /\ pc[2] = "bind"
    /\ pc[1] = "aborted" /\ err[1] = Some(BindError)

\* Every stream p holds is a connection whose end at p is open.
HoldsOpenEnds(p) ==
    \A c \in {lower[p][i] : i \in 1 .. Len(lower[p])}
            \cup {Unwrap(slots[p][i]) : i \in {j \in 1 .. Len(slots[p]) : IsSome(slots[p][j])}}
            \cup Held(p) :
        /\ c \in DOMAIN conns
        /\ IF Dialer(c) = p THEN conns[c].dOpen ELSE conns[c].lOpen

\* C10: when an attempt ends with an error, its listener, epoch and streams
\* are gone: between attempts a process holds nothing and has no open end;
\* an end once closed stays closed; the next attempt binds a listener with
\* an empty queue; every stream a process holds has its own end open.
C10_AtomicAttempts ==
    /\ [](\A p \in Fleet :
            /\ pc[p] \in {"failed", "bind", "aborted"} => HoldsNothing(p) /\ result[p] = << >>
            /\ HoldsOpenEnds(p))
    /\ [][/\ \A p \in Fleet :
                (pc[p] = "bind" /\ pc'[p] = "lower") => HoldsNothing(p)'
          /\ \A c \in DOMAIN conns :
                c \in DOMAIN conns' =>
                    /\ ~conns[c].dOpen => ~conns'[c].dOpen
                    /\ ~conns[c].lOpen => ~conns'[c].lOpen]_vars

\* C10 witness: process 2 failed an attempt in which it had established a
\* stream with process 0; that stream is closed at 2 and 2 holds nothing.
C10_Witness ==
    /\ pc[2] = "failed" /\ Unwrap(err[2]).kind = "EpochMismatch"
    /\ \E c \in DOMAIN conns : Dialer(c) = 2 /\ Acceptor(c) = 0 /\ KeptByAcceptor(c)

\* Listener p is about to accept a connection whose dialer waits on it
\* holding an epoch smaller than p's.
LatePeer(p) ==
    /\ pc[p] = "higher" /\ backlog[p] # << >>
    /\ LET c == Head(backlog[p])
       IN /\ conns[c].dOpen
          /\ IsSome(epoch[Dialer(c)])
          /\ EpochCmp(Unwrap(epoch[Dialer(c)]), Unwrap(epoch[p])) = "Less"

\* Listener p has accepted a connection on which a smaller epoch arrived.
LateEpoch(p) ==
    /\ pc[p] = "exchange"
    /\ LET s == conns[Unwrap(asock[p]).sock]
       IN /\ Len(s.d2l) >= 2
          /\ EpochCmp(EpochOfWords(s.d2l), Unwrap(epoch[p])) = "Less"

\* The attempt of p goes on with its epoch and its slots.
GoesOn(p) ==
    /\ pc'[p] \in {"higher", "exchange"}
    /\ err'[p] = None
    /\ epoch'[p] = epoch[p]
    /\ slots'[p] = slots[p]

\* The step of p that compares the smaller epoch drops the stream and goes on.
LateDropped(p) ==
    (LateEpoch(p) /\ pc'[p] \in {"higher", "failed"}) =>
        /\ GoesOn(p)
        /\ asock'[p] = None
        /\ LET c == Unwrap(asock[p]).sock
           IN c \in DOMAIN conns' => ~conns'[c].lOpen

\* C6 as stated: accepting a connection of a peer with a smaller epoch never
\* fails the listener, whatever the slots hold.
C6_LatePeerNeverFails ==
    [][\A p \in Fleet :
        /\ (LatePeer(p) /\ pc'[p] \in {"exchange", "failed"}) => GoesOn(p)
        /\ LateDropped(p)]_vars

\* C6: a connection of a peer with a smaller epoch that announces an index
\* whose slot is empty is dropped after the exchange and the listener keeps
\* its epoch and its slots; one that announces an index whose slot is filled
\* fails the attempt with Reconnect before any epoch is exchanged.
C6_LatePeerDropped ==
    [][\A p \in Fleet :
        /\ (LatePeer(p) /\ pc'[p] \in {"exchange", "failed"}) =>
                IF SlotFilled(p, Announced(p))
                THEN pc'[p] = "failed" /\ err'[p] = Some(Reconnect(Announced(p)))
                ELSE GoesOn(p)
        /\ LateDropped(p)]_vars

\* C6 witness: process 1, with the stream of one higher peer stored, has
\* accepted a connection of the other on which a smaller epoch arrived.
C6_Witness ==
    /\ n = MaxN + 1
    /\ LateEpoch(1)
    /\ \E i \in 1 .. Len(slots[1]) : IsSome(slots[1][i])

\* C11: a fleet of one never opens or queues a connection and is never in a
\* handshake or an exchange; after the bind process 0 can mint at once, and
\* after the mint it can return at once and cannot accept; what it returns
\* is [None]; the only error it can meet is Bind.
C11_SingleProcess ==
    /\ [](n = 1 =>
            /\ DOMAIN conns = {} /\ backlog[0] = << >>
            /\ lower[0] = << >> /\ dsock[0] = None /\ asock[0] = None
            /\ pc[0] \in {"bind", "lower", "higher", "returned", "failed", "aborted"}
            /\ pc[0] = "lower" => epoch[0] = None /\ ENABLED Mint(0) /\ ~ENABLED DialConnect(0)
            /\ pc[0] = "higher" =>
                    /\ IsSome(epoch[0]) /\ slots[0] = << >>
                    /\ ENABLED ReturnOk(0) /\ ~ENABLED Accept(0)
            /\ Returned(0) => result[0] = << None >> /\ IsSome(epoch[0])
            /\ pc[0] \in {"failed", "aborted"} => err[0] = Some(BindError))
    /\ [][n = 1 =>
            /\ (pc[0] = "lower" /\ pc'[0] # "lower") => pc'[0] \in {"higher", "bind"}
            /\ (pc[0] = "higher" /\ pc'[0] # "higher") => pc'[0] \in {"returned", "bind"}
            /\ (pc[0] = "higher" /\ pc'[0] = "bind") => budget'.crash < budget.crash]_vars

\* C11 witness: the single process returned [None] with the one epoch minted.
C11_Witness ==
    /\ n = 1 /\ Returned(0) /\ result[0] = << None >>
    /\ Cardinality(minted) = 1 /\ budget.crash = MaxCrashes /\ ~budget.bind

\* The epochs in flight on connection c: a whole epoch waiting to be read
\* in either direction.
InFlight(c) ==
    (IF Len(conns[c].l2d) >= 2 THEN {EpochOfWords(conns[c].l2d)} ELSE {})
        \cup (IF Len(conns[c].d2l) >= 2 THEN {EpochOfWords(conns[c].d2l)} ELSE {})

\* C12: process 0 never dials (it is never in a handshake, holds no dialed
\* stream and no connection has it as dialer); the set of minted epochs
\* changes only by a step of process 0 from before the mint to after it;
\* and every epoch a process holds, and every epoch written to or in flight
\* on a connection, is a minted one.
C12_SoleMinter ==
    /\ [](/\ pc[0] # "handshake" /\ lower[0] = << >> /\ dsock[0] = None
          /\ \A c \in DOMAIN conns : Dialer(c) # 0
          /\ \A p \in Fleet : IsSome(epoch[p]) => Unwrap(epoch[p]) \in minted
          /\ \A c \in DOMAIN conns :
                /\ IsSome(conns[c].dWrote) => Unwrap(conns[c].dWrote) \in minted
                /\ IsSome(conns[c].lWrote) => Unwrap(conns[c].lWrote) \in minted
                /\ Len(conns[c].l2d) \in {0, 2} /\ Len(conns[c].d2l) \in {0, 1, 2}
                /\ InFlight(c) \subseteq minted)
    /\ [][minted' # minted =>
            /\ pc[0] = "lower" /\ pc'[0] = "higher"
            /\ epoch[0] = None /\ IsSome(epoch'[0])
            /\ minted' = minted \cup {Unwrap(epoch'[0])}
            /\ \A p \in Fleet \ {0} : epoch'[p] = epoch[p]]_vars

\* C12 witness: after a second mint, process 2 holds a minted epoch it
\* adopted and an epoch is in flight from a dialer to its listener.
C12_Witness ==
    /\ n = 3 /\ Cardinality(minted) = 2
    /\ IsSome(epoch[2]) /\ Unwrap(epoch[2]) \in minted
    /\ \E c \in DOMAIN conns : Len(conns[c].d2l) = 2

\* C13: the process with the highest index is never the listener of a
\* connection, has an empty queue and is never in an exchange; once it has
\* dialed all lower peers it can return at once and cannot accept; it fails
\* only with Bind or EpochMismatch, and EpochMismatch only out of a handshake.
C13_HighestOnlyDials ==
    /\ [](/\ \A c \in DOMAIN conns : Acceptor(c) # n - 1
          /\ backlog[n - 1] = << >> /\ asock[n - 1] = None
          /\ pc[n - 1] # "exchange"
          /\ pc[n - 1] = "higher" =>
                /\ slots[n - 1] = << >>
                /\ ENABLED ReturnOk(n - 1) /\ ~ENABLED Accept(n - 1)
          /\ IsSome(err[n - 1]) => Unwrap(err[n - 1]).kind \in {"Bind", "EpochMismatch"})
    /\ [][(err'[n - 1] # err[n - 1] /\ IsSome(err'[n - 1])) =>
            IF pc[n - 1] = "handshake"
            THEN Unwrap(err'[n - 1]).kind = "EpochMismatch"
            ELSE pc[n - 1] = "bind" /\ Unwrap(err'[n - 1]).kind = "Bind"]_vars

\* C13 witness: process 2 of three failed with EpochMismatch while dialing
\* process 1.
C13_Witness ==
    /\ n = 3 /\ pc[2] = "failed"
    /\ Unwrap(err[2]).kind = "EpochMismatch" /\ Unwrap(err[2]).peer_index = Some(1)

\* Process 1 of three has crashed after it accepted the connection of
\* process 2, which still holds its end; process 0 has not restarted and no
\* other fault has happened.
CrashedAfterConnect ==
    /\ n = 3 /\ pc[1] = "bind"
    /\ budget.crash = 0 /\ budget.io = MaxIoFail
    /\ IsSome(epoch[0]) /\ Cardinality(minted) = 1
    /\ \E c \in DOMAIN conns :
        /\ Dialer(c) = 2 /\ Acceptor(c) = 1
        /\ conns[c].dOpen /\ ~conns[c].lOpen /\ IsSome(conns[c].lWrote)

\* All processes returned with one epoch, on n*(n-1)/2 connections that are
\* open and held at both ends.
CommonMesh ==
    /\ AllReturned
    /\ \A p, q \in Fleet : IsSome(epoch[p]) /\ epoch[p] = epoch[q]
    /\ 2 * Cardinality(DOMAIN conns) = n * (n - 1)
    /\ \A c \in DOMAIN conns :
        conns[c].dOpen /\ conns[c].lOpen /\ KeptByDialer(c) /\ KeptByAcceptor(c)

\* C14: in a fleet of three, from the crash of process 1 after process 2
\* connected to it, with no further crash and every process taking its
\* steps, the fleet reaches and keeps a mesh of three connections between
\* current instances on one common epoch: always so when the clock does not
\* go back, and otherwise unless the epochs of the model run out.
C14_CrashDuringBootstrap ==
    /\ [] ClockSteady => (CrashedAfterConnect ~> [] CommonMesh)
    /\ CrashedAfterConnect ~> ([] CommonMesh \/ [] OutOfEpochs)

\* C14 witness: process 1 has crashed while process 2, which has returned,
\* holds the stream to the crashed instance.
C14_Witness == CrashedAfterConnect /\ Returned(2) /\ Doomed(2)

\* Dialer p holds an epoch and the epoch waiting on its stream is greater.
DialerBehind(p) ==
    /\ pc[p] = "handshake" /\ IsSome(epoch[p])
    /\ LET s == conns[Unwrap(dsock[p])]
       IN /\ Len(s.l2d) >= 2
          /\ EpochCmp(EpochOfWords(s.l2d), Unwrap(epoch[p])) = "Greater"

\* Listener p has accepted a connection on which a greater epoch arrived.
ListenerBehind(p) ==
    /\ pc[p] = "exchange"
    /\ LET s == conns[Unwrap(asock[p]).sock]
       IN /\ Len(s.d2l) >= 2
          /\ EpochCmp(EpochOfWords(s.d2l), Unwrap(epoch[p])) = "Greater"

\* Two processes hold different epochs.
Split ==
    \E p, q \in Fleet : IsSome(epoch[p]) /\ IsSome(epoch[q]) /\ epoch[p] # epoch[q]

\* The common mesh on the greatest epoch minted.
NewestMesh ==
    /\ CommonMesh
    /\ \A m \in minted : EpochCmp(m, Unwrap(epoch[0])) # "Greater"

DoomedPredecessor ==
    /\ n = 3 /\ budget.crash = 0 /\ budget.io = 0
    /\ pc[0] = "higher" /\ Cardinality(minted) = 2
    /\ backlog[0] = << >> /\ \A i \in 1 .. Len(slots[0]) : IsNone(slots[0][i])
    /\ epoch[1] = epoch[2] /\ IsSome(epoch[1]) /\ epoch[1] # epoch[0]
    /\ \E c \in DOMAIN conns :
        /\ Dialer(c) = 2 /\ Acceptor(c) = 1
        /\ KeptByDialer(c) /\ KeptByAcceptor(c)

\* Process p sees EpochMismatch or Reconnect end its attempt.
ObservesRestartable(p) ==
    pc[p] = "failed" /\ Unwrap(err[p]).kind \in {"EpochMismatch", "Reconnect"}

\* C16 as stated: processes 1 and 2 each come to see EpochMismatch or
\* Reconnect end an attempt.
C16_PeersObserveError ==
    /\ DoomedPredecessor ~> ObservesRestartable(1)
    /\ DoomedPredecessor ~> ObservesRestartable(2)

\* C16: processes 1 and 2 have both left the protocol, or can leave it with
\* no further read, so no error reaches them: from then on no attempt of any
\* process fails, and they restart only as doomed processes; the fleet
\* reaches and keeps the common mesh on the epoch process 0 minted.
C16_DoomedPredecessor ==
    /\ [](DoomedPredecessor => \A p \in {1, 2} : pc[p] \in {"lower", "higher", "returned"})
    /\ \A e \in Epoch :
        (DoomedPredecessor /\ epoch[0] = Some(e)) ~>
            [](CommonMesh /\ epoch[0] = Some(e) /\ Cardinality(minted) = 2)
    /\ [](DoomedPredecessor => [](\A p \in Fleet : pc[p] # "failed" /\ err[p] = None))

\* C16 witness: the doomed predecessor generation with both peers returned.
C16_Witness == DoomedPredecessor /\ Returned(1) /\ Returned(2)

\* The dialer of c waits in its handshake for an epoch that has not arrived.
DialerWaits(c) ==
    /\ pc[Dialer(c)] = "handshake" /\ dsock[Dialer(c)] = Some(c)
    /\ Len(conns[c].l2d) < 2

\* The listener of c waits in exchange_epochs for an epoch that has not arrived.
ListenerWaits(c) ==
    /\ pc[Acceptor(c)] = "exchange" /\ Unwrap(asock[Acceptor(c)]).sock = c
    /\ Len(conns[c].d2l) < 2

\* The peer process p dials next, or is dialing.
DialTarget(p) == Len(lower[p])

\* C17: while some process has not returned, some process can take a step;
\* on no connection do the dialer and the listener both wait to read; a
\* process that dials, dials a peer with a lower index than its own, so the
\* waits of dialers on dialing peers descend and end at process 0, which
\* never dials.
C17_DeadlockFree ==
    /\ ~AllReturned => ENABLED NextClean
    /\ \A c \in DOMAIN conns : ~(DialerWaits(c) /\ ListenerWaits(c))
    /\ pc[0] \notin {"handshake"} /\ ~ENABLED DialConnect(0)
    /\ \A p \in Fleet :
        /\ pc[p] = "handshake" =>
                Acceptor(Unwrap(dsock[p])) = DialTarget(p) /\ DialTarget(p) < p
        /\ ENABLED DialConnect(p) => DialTarget(p) < p

\* C17 witness: process 2 waits in its handshake on process 1, which is
\* itself in its handshake with process 0.
C17_Witness ==
    /\ n = 3
    /\ pc[2] = "handshake" /\ DialTarget(2) = 1 /\ DialerWaits(Unwrap(dsock[2]))
    /\ pc[1] = "handshake" /\ DialTarget(1) = 0

\* The streams process p has kept in this attempt, by peer index.
KeptPeers(p) ==
    {Acceptor(lower[p][i]) : i \in 1 .. Len(lower[p])}
        \cup {Dialer(Unwrap(slots[p][i])) : i \in {j \in 1 .. Len(slots[p]) : IsSome(slots[p][j])}}

\* Process p returns from create_sockets in this step.
Returns(p) == pc[p] = "higher" /\ pc'[p] = "returned"

\* C18 as stated: an attempt that returns has observed no peer twice.
C18_NoIndexTwice ==
    [][\A p \in Fleet : Returns(p) => seen[p].again = {}]_vars

\* C18: an attempt keeps at most one stream for each peer, and a peer whose
\* stream is kept is never observed again in an attempt that goes on: at the
\* return every other peer has been observed and has exactly one kept
\* stream. A peer may have been observed more than once before its stream
\* was kept, when the earlier streams were dropped.
C18_KeptOnce ==
    /\ [](\A p \in Fleet :
            /\ Len(lower[p]) = Cardinality({Acceptor(lower[p][i]) : i \in 1 .. Len(lower[p])})
            /\ \A i \in 1 .. Len(lower[p]) : Acceptor(lower[p][i]) = i - 1
            /\ \A i \in 1 .. Len(slots[p]) :
                    IsSome(slots[p][i]) => Dialer(Unwrap(slots[p][i])) = p + i
            /\ KeptPeers(p) \subseteq seen[p].once
            /\ seen[p].again \subseteq seen[p].once)
    /\ [][\A p \in Fleet :
            /\ Returns(p) => KeptPeers(p) = Fleet \ {p} /\ seen[p].once = Fleet \ {p}
            /\ \A k \in KeptPeers(p) :
                    (seen'[p] # seen[p] /\ k \in seen'[p].again \ seen[p].again)
                        => pc'[p] = "failed"]_vars

\* C18 witness: process 2 is about to return, having completed two
\* handshakes with process 1, the first of which it dropped.
C18_Witness ==
    /\ n = 3 /\ pc[2] = "higher" /\ ENABLED ReturnOk(2)
    /\ 1 \in seen[2].again

\* The transport of the stream at position i of the vector of process p: a
\* dialed stream is of the transport of the peer's address, an accepted one
\* of the transport p listens on.
FamilyAt(p, i) ==
    IF i - 1 < p THEN FamilyOf(addresses[i - 1])
    ELSE FamilyOf(ListenAddress(addresses[p]))

\* The addresses of the fleet are all of one transport.
OneFamily == \A p, q \in Fleet : FamilyOf(addresses[p]) = FamilyOf(addresses[q])

\* C19 as stated: the streams of every returned vector are of one transport.
C19_SameFamily ==
    \A p \in Fleet :
        Returned(p) =>
            \A c, d \in FilterSome(result[p]) : StreamFamily(c) = StreamFamily(d)

\* C19: (amended) the stream create_sockets returns for a lower peer is of
\* the transport of that peer's address and the stream for a higher peer is
\* of the transport the process listens on; the vector is of one transport
\* whenever the addresses of the fleet are.
C19_FamilyByAddress ==
    \A p \in Fleet :
        Returned(p) =>
            /\ \A i \in 1 .. Len(result[p]) :
                    IsSome(result[p][i]) =>
                        /\ StreamFamily(Unwrap(result[p][i])) = FamilyAt(p, i)
                        /\ {Dialer(Unwrap(result[p][i])), Acceptor(Unwrap(result[p][i]))}
                                = {p, i - 1}
            /\ OneFamily =>
                    \A c, d \in FilterSome(result[p]) : StreamFamily(c) = StreamFamily(d)

\* Process 1 of three returned a dialed TCP stream and an accepted Unix stream.
C19_Witness ==
    /\ n = 3
    /\ Returned(1)
    /\ IsSome(result[1][1]) /\ IsTcp(Unwrap(result[1][1]))
    /\ IsSome(result[1][3]) /\ IsUnix(Unwrap(result[1][3]))

\* The vector holds both a TCP and a Unix stream.
Mixed(v) ==
    /\ \E c \in FilterSome(v) : IsTcp(c)
    /\ \E c \in FilterSome(v) : IsUnix(c)

\* Process p, back from create_sockets and neither crashing nor doomed,
\* takes its step after the loop.
LeavesLoop(p) ==
    /\ pc[p] = "returned"
    /\ ~Doomed(p)
    /\ budget' = budget
    /\ pc'[p] # pc[p] \/ handoff'[p] # handoff[p]

\* The vector w is the vector v in the same order, each stream in blocking
\* mode.
SameOrderBlocking(v, w) ==
    /\ Len(w) = Len(v)
    /\ \A i \in 1 .. Len(v) :
            IF IsNone(v[i]) THEN IsNone(w[i])
            ELSE /\ IsSome(w[i])
                 /\ Unwrap(w[i]).stream = Unwrap(v[i])
                 /\ Unwrap(w[i]).family = StreamFamily(Unwrap(v[i]))
                 /\ ~Unwrap(w[i]).nonblocking

\* C20: with a vector that holds both a TCP and a Unix stream
\* initialize_networking returns the error "cannot mix TCP and Unix streams"
\* and never calls create_sockets again; with any other vector, the vector
\* of a single process included, its one way on is to switch every stream
\* to blocking mode and to call the transport initializer with the vector
\* in the same order (a failing into_std or set_nonblocking returns an
\* error instead, before the initializer is called).
C20_Handoff ==
    /\ [](\A p \in Fleet :
            (pc[p] = "returned" /\ handoff[p] = NotHanded) =>
                IF Mixed(result[p])
                THEN ENABLED HandoffMixed(p) /\ ~ENABLED Handoff(p)
                ELSE ENABLED Handoff(p) /\ ~ENABLED HandoffMixed(p))
    /\ [][\A p \in Fleet :
            /\ LeavesLoop(p) =>
                IF Mixed(result[p])
                THEN /\ pc'[p] = "aborted"
                     /\ handoff'[p] = [sockets |-> None,
                                       error |-> Some("cannot mix TCP and Unix streams")]
                ELSE \/ /\ pc'[p] = "returned"
                        /\ handoff'[p].error = None
                        /\ IsSome(handoff'[p].sockets)
                        /\ SameOrderBlocking(result[p], Unwrap(handoff'[p].sockets))
                     \/ /\ pc'[p] = "aborted"
                        /\ handoff'[p].sockets = None
                        /\ handoff'[p].error \in
                              {Some("failed to get standard sockets from tokio sockets"),
                               Some("failed to set socket to non-blocking")}
                        /\ FilterSome(result[p]) # {}
            /\ pc[p] = "aborted" => pc'[p] = "aborted" /\ handoff'[p] = handoff[p]]_vars

\* Of three processes, process 1 has left with the error of a mixed vector
\* and process 0 has handed its two TCP streams to the initializer.
C20_Witness ==
    /\ n = 3
    /\ handoff[1].error = Some("cannot mix TCP and Unix streams")
    /\ pc[1] = "aborted"
    /\ IsSome(handoff[0].sockets)
    /\ Len(Unwrap(handoff[0].sockets)) = 3

\* ------------------------------------------------------- Epoch on its own

\* Words sent over the wire go up to MaxWord, past one byte.
MaxWord == 257

\* The epochs written and read on their own.
WireEpoch == [time : 0 .. MaxWord, nonce : 0 .. MaxWord]

\* The state of the protocol, which stands still while the Epoch operations
\* are applied on their own.
protocolVars == << n, pc, tries, epoch, lower, dsock, slots, asock, backlog,
                  err, result, conns, minted, budget, seen, addresses, handoff >>

\* a.cmp(&b), b.cmp(&a), b.cmp(&c) and a.cmp(&c) of three epochs.
BenchCmp ==
    /\ bench.op = "none"
    /\ \E a, b, c \in Epoch :
        bench' = [op |-> "cmp", a |-> a, b |-> b, c |-> c,
                  ab |-> EpochCmp(a, b), ba |-> EpochCmp(b, a),
                  bc |-> EpochCmp(b, c), ac |-> EpochCmp(a, c)]
    /\ UNCHANGED protocolVars

\* Epoch::write of an epoch to an empty stream.
BenchWrite ==
    /\ bench.op = "none"
    /\ \E e \in WireEpoch :
        bench' = [op |-> "write", sent |-> e, stream |-> EpochBytes(e)]
    /\ UNCHANGED protocolVars

\* Epoch::read from the stream that was written.
BenchRead ==
    /\ bench.op = "write"
    /\ bench' = [op |-> "read", sent |-> bench.sent,
                 stream |-> SubSeq(bench.stream, 2 * WordBytes + 1, Len(bench.stream)),
                 got |-> EpochOfBytes(bench.stream)]
    /\ UNCHANGED protocolVars

\* Epoch::mint of the first bootstrap: the clock reads any time.
BenchMint ==
    /\ bench.op = "none"
    /\ \E t \in 0 .. MaxTime : \E r \in 0 .. MaxNonce :
        bench' = [op |-> "mint", clock |-> t, read |-> << t >>,
                  mints |-> << EpochMint(t, r) >>]
    /\ UNCHANGED protocolVars

\* The system clock moves, forwards or backwards.
BenchClock ==
    /\ bench.op = "mint"
    /\ Len(bench.mints) < 2
    /\ \E t \in (0 .. MaxTime) \ {bench.clock} : bench' = [bench EXCEPT !.clock = t]
    /\ UNCHANGED protocolVars

\* Epoch::mint of the second bootstrap.
BenchMintAgain ==
    /\ bench.op = "mint"
    /\ Len(bench.mints) < 2
    /\ \E r \in 0 .. MaxNonce :
        bench' = [bench EXCEPT !.read = Append(@, bench.clock),
                               !.mints = Append(@, EpochMint(bench.clock, r))]
    /\ UNCHANGED protocolVars

InitEpoch == Start(1, [crash |-> 0, io |-> 0, bind |-> FALSE])

NextEpoch ==
    \/ BenchCmp
    \/ BenchWrite
    \/ BenchRead
    \/ BenchMint
    \/ BenchClock
    \/ BenchMintAgain

SpecEpoch == InitEpoch /\ [][NextEpoch]_vars

\* a is before b in the lexicographic order on (time, nonce).
LexLess(a, b) == a.time < b.time \/ (a.time = b.time /\ a.nonce < b.nonce)

\* a <= b, from the result of a.cmp(&b).
AtMost(r) == r \in {"Less", "Equal"}

\* C21: the comparison of epochs is the lexicographic order on (time, nonce),
\* time first. It is a total order: two epochs compare equal only when both
\* fields are equal, of two distinct epochs exactly one is less and the other
\* greater, and the order is transitive.
C21_TotalOrder ==
    bench.op = "cmp" =>
        /\ bench.ab = "Less" <=> LexLess(bench.a, bench.b)
        /\ bench.ab = "Greater" <=> LexLess(bench.b, bench.a)
        /\ bench.ab = "Equal" <=>
                (bench.a.time = bench.b.time /\ bench.a.nonce = bench.b.nonce)
        /\ bench.ab = "Less" <=> bench.ba = "Greater"
        /\ bench.ab = "Equal" <=> bench.ba = "Equal"
        /\ bench.a # bench.b => bench.ab \in {"Less", "Greater"}
        /\ (AtMost(bench.ab) /\ AtMost(bench.bc)) => AtMost(bench.ac)
        /\ (bench.ab = "Less" /\ AtMost(bench.bc)) => bench.ac = "Less"

\* Two epochs that time and nonce order differently: the time decides.
C21_Witness ==
    /\ bench.op = "cmp"
    /\ bench.a.time < bench.b.time
    /\ bench.a.nonce > bench.b.nonce
    /\ bench.ab = "Less"
    /\ bench.b # bench.c

\* The value of a sequence of bytes read as one big-endian number.
RECURSIVE BigEndianValue(_)
BigEndianValue(bs) ==
    IF bs = << >> THEN 0
    ELSE BigEndianValue(SubSeq(bs, 1, Len(bs) - 1)) * 256 + bs[Len(bs)]

\* The eight bytes bs are the big-endian word of a value w below 256^3.
WordIs(bs, w) ==
    /\ \A i \in 1 .. 5 : bs[i] = 0
    /\ BigEndianValue(SubSeq(bs, 6, 8)) = w

\* C22: Epoch::write sends 16 bytes, the time as a 64-bit big-endian word and
\* then the nonce as another, and Epoch::read on the same stream yields the
\* epoch that was written and leaves nothing unread.
C22_RoundTrip ==
    /\ bench.op = "write" =>
        /\ Len(bench.stream) = 16
        /\ \A i \in 1 .. 16 : bench.stream[i] \in 0 .. 255
        /\ WordIs(SubSeq(bench.stream, 1, 8), bench.sent.time)
        /\ WordIs(SubSeq(bench.stream, 9, 16), bench.sent.nonce)
    /\ bench.op = "read" =>
        /\ bench.got = bench.sent
        /\ bench.stream = << >>

\* An epoch whose time takes two bytes and whose nonce takes one, read back.
C22_Witness ==
    /\ bench.op = "read"
    /\ bench.sent = [time |-> 256, nonce |-> 1]
    /\ bench.got.time = 256

\* Both bootstraps have minted.
MintedTwice == bench.op = "mint" /\ Len(bench.mints) = 2

ConnectsTo(c, p, k) ==
    IF k < p THEN Dialer(c) = p /\ Acceptor(c) = k
    ELSE Dialer(c) = k /\ Acceptor(c) = p

\* C24: in every successful result of create_sockets the entry at index k,
\* k other than my_index, is a stream connected to peer k: dialed at
\* addresses[k] for a lower peer, announced as index k by its dialer for a
\* higher peer. The dialed streams are established in increasing order of k,
\* one peer after the other; an accepted stream goes to the slot of the index
\* it announced, in whatever order the higher peers arrive.
C24_EntryIsPeer ==
    /\ [](\A p \in Fleet :
            /\ Returned(p) =>
                \A k \in Fleet \ {p} :
                    /\ IsSome(result[p][k + 1])
                    /\ ConnectsTo(Unwrap(result[p][k + 1]), p, k)
            /\ \A i \in 1 .. Len(lower[p]) : ConnectsTo(lower[p][i], p, i - 1))
    /\ [][\A p \in Fleet :
            /\ lower'[p] # lower[p] =>
                \/ lower'[p] = << >>
                \/ /\ Len(lower'[p]) = Len(lower[p]) + 1
                   /\ SubSeq(lower'[p], 1, Len(lower[p])) = lower[p]
            /\ \A i \in 1 .. Len(slots[p]) :
                (Len(slots'[p]) = Len(slots[p]) /\ slots'[p][i] # slots[p][i]) =>
                    /\ IsNone(slots[p][i])
                    /\ IsSome(asock[p])
                    /\ Unwrap(asock[p]).index = p + i
                    /\ slots'[p][i] = Some(Unwrap(asock[p]).sock)
                    /\ ConnectsTo(Unwrap(asock[p]).sock, p, p + i)]_vars

\* Process 1 of three has returned while process 0 holds the stream of peer 2
\* and not yet that of peer 1: peer 2 arrived first.
C24_Witness ==
    /\ n = 3
    /\ Returned(1)
    /\ pc[0] = "exchange"
    /\ slots[0] = << None, slots[0][2] >>
    /\ IsSome(slots[0][2])

\* The slot of accept_higher of p for peer index p + i changes in this step,
\* within the attempt.
SlotChanges(p, i) ==
    /\ Len(slots'[p]) = Len(slots[p])
    /\ slots'[p][i] # slots[p][i]

\* The attempt of p ends in this step: it returns, fails or is crashed.
AttemptEnds(p) == pc'[p] \in {"returned", "failed", "bind"} /\ slots'[p] = << >>

\* No slot of accept_higher of p is empty.
AllFilled(p) == \A i \in 1 .. Len(slots[p]) : IsSome(slots[p][i])

\* C25: in accept_higher a slot goes from empty to filled only by the
\* connection that announced its index while it was empty and whose
\* exchange_epochs read a peer epoch equal to my_epoch; a filled slot keeps
\* its stream until the attempt ends; accept_higher returns when no slot is
\* empty, and only then.
C25_SlotOnce ==
    /\ [](\A p \in Fleet :
            pc[p] = "higher" =>
                /\ AllFilled(p) <=> ENABLED ReturnOk(p)
                /\ AllFilled(p) => ~ENABLED Accept(p) /\ ~ENABLED AcceptFail(p))
    /\ [][\A p \in Fleet :
            /\ \A i \in 1 .. Len(slots[p]) :
                /\ SlotChanges(p, i) =>
                    /\ IsNone(slots[p][i])
                    /\ pc[p] = "exchange"
                    /\ Unwrap(asock[p]).index = p + i
                    /\ slots'[p][i] = Some(Unwrap(asock[p]).sock)
                    /\ Len(conns[Unwrap(asock[p]).sock].d2l) >= 2
                    /\ EpochOfWords(conns[Unwrap(asock[p]).sock].d2l) = Unwrap(epoch[p])
                    /\ epoch'[p] = epoch[p]
                /\ IsSome(slots[p][i]) =>
                    \/ Len(slots'[p]) = Len(slots[p]) /\ slots'[p][i] = slots[p][i]
                    \/ AttemptEnds(p)
            /\ Returns(p) => AllFilled(p)]_vars

\* Process 0 of three has filled both slots and is about to return.
C25_Witness ==
    /\ n = 3
    /\ pc[0] = "higher"
    /\ Len(slots[0]) = 2
    /\ AllFilled(0)
    /\ ENABLED ReturnOk(0)

\* create_sockets of p returns a new EpochMismatch in this step.
RaisesMismatch(p) ==
    /\ err'[p] # err[p]
    /\ IsSome(err'[p])
    /\ Unwrap(err'[p]).kind = "EpochMismatch"

\* Process p completes an epoch exchange in this step: the handshake of
\* connect_lower or exchange_epochs of accept_higher reads the peer's epoch
\* and no I/O failure is injected.
CompletesExchange(p) ==
    /\ \/ pc[p] = "handshake" /\ Len(conns[Unwrap(dsock[p])].l2d) >= 2
       \/ pc[p] = "exchange" /\ Len(conns[Unwrap(asock[p]).sock].d2l) >= 2
    /\ pc'[p] # pc[p]
    /\ budget' = budget

\* The epoch the exchange of p reads, and the index of the peer.
PeerEpoch(p) ==
    IF pc[p] = "handshake" THEN EpochOfWords(conns[Unwrap(dsock[p])].l2d)
    ELSE EpochOfWords(conns[Unwrap(asock[p]).sock].d2l)

PeerIndex(p) ==
    IF pc[p] = "handshake" THEN Len(lower[p]) ELSE Unwrap(asock[p]).index

\* C26: create_sockets returns EpochMismatch exactly when the process holds
\* an epoch and completes an epoch exchange, dialing or accepting, that read
\* a peer epoch strictly greater than its own; the error names that peer and
\* carries peer_epoch > my_epoch; it is not fatal: the loop starts the next
\* attempt.
C26_MismatchExactly ==
    /\ [](\A p \in Fleet :
            (IsSome(err[p]) /\ Unwrap(err[p]).kind = "EpochMismatch") =>
                /\ EpochCmp(Unwrap(Unwrap(err[p]).peer_epoch),
                            Unwrap(Unwrap(err[p]).my_epoch)) = "Greater"
                /\ ~IsFatal(Unwrap(err[p]))
                /\ pc[p] = "failed"
                /\ ENABLED Retry(p)
                /\ ~ENABLED Bail(p))
    /\ [][\A p \in Fleet :
            /\ RaisesMismatch(p) <=>
                /\ CompletesExchange(p)
                /\ IsSome(epoch[p])
                /\ EpochCmp(PeerEpoch(p), Unwrap(epoch[p])) = "Greater"
            /\ RaisesMismatch(p) =>
                /\ err'[p] = Some(EpochMismatch(PeerIndex(p), PeerEpoch(p), Unwrap(epoch[p])))
                /\ pc'[p] = "failed"
            /\ (pc[p] = "failed" /\ Unwrap(err[p]).kind = "EpochMismatch" /\ pc'[p] # pc[p])
                    => pc'[p] = "bind"]_vars

\* Process 2 of three, dialing peer 1, has failed with EpochMismatch.
C26_Witness ==
    /\ n = 3
    /\ pc[2] = "failed"
    /\ Unwrap(err[2]).kind = "EpochMismatch"
    /\ Unwrap(err[2]).peer_index = Some(1)

\* accept of listener p returns the next connection with its index: the
\* step that goes on to exchange_epochs or ends the attempt.
Accepts(p) ==
    /\ pc[p] = "higher"
    /\ backlog[p] # << >>
    /\ pc'[p] \in {"exchange", "failed"}

\* create_sockets of p returns a new Reconnect in this step.
RaisesReconnect(p) ==
    /\ err'[p] # err[p]
    /\ IsSome(err'[p])
    /\ Unwrap(err'[p]).kind = "Reconnect"

\* C27: accept_higher ends the attempt with Reconnect(index) exactly when an
\* accepted connection announces an index whose slot is filled; the error is
\* not fatal. A connection that announces an index read before in the
\* attempt, from a connection that was dropped, goes on to exchange_epochs
\* as long as the slot is empty.
C27_ReconnectExactly ==
    /\ [](\A p \in Fleet :
            (IsSome(err[p]) /\ Unwrap(err[p]).kind = "Reconnect") =>
                /\ Unwrap(Unwrap(err[p]).peer_index) \in (p + 1) .. (n - 1)
                /\ ~IsFatal(Unwrap(err[p]))
                /\ pc[p] = "failed"
                /\ ENABLED Retry(p))
    /\ [][\A p \in Fleet :
            /\ RaisesReconnect(p) <=> (Accepts(p) /\ IsSome(SlotOf(p, Announced(p))))
            /\ RaisesReconnect(p) =>
                /\ err'[p] = Some(Reconnect(Announced(p)))
                /\ pc'[p] = "failed"
            /\ (Accepts(p) /\ IsNone(SlotOf(p, Announced(p)))) =>
                /\ pc'[p] = "exchange"
                /\ err'[p] = None
                /\ asock'[p] = Some([index |-> Announced(p), sock |-> Head(backlog[p])])]_vars

\* Process 0 of three holds the stream of peer 2 and has accepted a second
\* connection of peer 1, whose first was dropped: no Reconnect.
C27_Witness ==
    /\ n = 3
    /\ pc[0] = "exchange"
    /\ Unwrap(asock[0]).index = 1
    /\ 1 \in seen[0].again
    /\ IsSome(slots[0][2])

\* The handshake of dialer p reads the peer's epoch in this step.
CompletesHandshake(p) == pc[p] = "handshake" /\ CompletesExchange(p)

\* C28: a process other than 0 obtains its epoch once per attempt, in the
\* first handshake it completes, which is with peer 0: it takes the epoch
\* read as its own without a comparison, so that handshake raises no error
\* and causes no redial, and connect_lower of process 1 never fails; it
\* writes that epoch back, and writes the same epoch in every later
\* handshake of the attempt.
C28_EpochFromPeerZero ==
    /\ [](\A p \in Fleet \ {0} :
            /\ pc[p] \in {"lower", "handshake"} => (IsSome(epoch[p]) <=> Len(lower[p]) >= 1)
            /\ pc[p] \in {"higher", "exchange", "returned"} => IsSome(epoch[p])
            /\ (p = 1 /\ IsSome(err[p]) /\ Unwrap(err[p]).kind # "Bind") =>
                    Unwrap(Unwrap(err[p]).peer_index) > 1)
    /\ [][\A p \in Fleet \ {0} :
            /\ epoch'[p] # epoch[p] =>
                \/ epoch'[p] = None /\ AttemptEnds(p)
                \/ /\ epoch[p] = None
                   /\ CompletesHandshake(p)
                   /\ Acceptor(Unwrap(dsock[p])) = 0
                   /\ epoch'[p] = Some(PeerEpoch(p))
            /\ (CompletesHandshake(p) /\ Len(lower[p]) = 0) =>
                /\ epoch[p] = None
                /\ epoch'[p] = Some(PeerEpoch(p))
                /\ lower'[p] = << Unwrap(dsock[p]) >>
                /\ pc'[p] = "lower"
                /\ err'[p] = None
                /\ conns'[Unwrap(dsock[p])].dWrote = Some(PeerEpoch(p))
            /\ (CompletesHandshake(p) /\ Len(lower[p]) > 0) =>
                /\ IsSome(epoch[p])
                /\ pc'[p] # "failed" => epoch'[p] = epoch[p]
                /\ Unwrap(dsock[p]) \in DOMAIN conns' =>
                        conns'[Unwrap(dsock[p])].dWrote = epoch[p]]_vars

\* Process 2 of three has pushed the streams of peers 0 and 1, and wrote on
\* both the epoch it took from peer 0.
C28_Witness ==
    /\ n = 3
    /\ pc[2] = "lower"
    /\ Len(lower[2]) = 2
    /\ conns[lower[2][1]].dWrote = epoch[2]
    /\ conns[lower[2][2]].dWrote = epoch[2]
    /\ conns[lower[2][1]].lWrote = epoch[2]

\* The handshake of dialer p completes in this step with an epoch smaller
\* than the one p holds.
ReadsSmaller(p) ==
    /\ CompletesHandshake(p)
    /\ IsSome(epoch[p])
    /\ EpochCmp(PeerEpoch(p), Unwrap(epoch[p])) = "Less"

\* Process p opens a connection in this step.
Dials(p) == pc[p] = "lower" /\ pc'[p] = "handshake"

\* C29: in connect_lower a handshake with lower peer k that reads a
\* peer_epoch smaller than my_epoch drops the stream, leaves my_epoch and the
\* list of established streams unchanged and raises no error, and the next
\* handshake dials peer k again; every dial goes to the peer after the last
\* established one, and every established stream read an epoch equal to
\* my_epoch.
C29_RedialSamePeer ==
    /\ [](\A p \in Fleet :
            /\ pc[p] = "handshake" =>
                /\ IsSome(dsock[p])
                /\ Acceptor(Unwrap(dsock[p])) = Len(lower[p])
            /\ \A i \in 1 .. Len(lower[p]) :
                /\ Acceptor(lower[p][i]) = i - 1
                /\ conns[lower[p][i]].lWrote = epoch[p]
                /\ conns[lower[p][i]].dOpen)
    /\ [][\A p \in Fleet :
            /\ ReadsSmaller(p) =>
                /\ pc'[p] = "lower"
                /\ epoch'[p] = epoch[p]
                /\ lower'[p] = lower[p]
                /\ err'[p] = None
                /\ dsock'[p] = None
                /\ Unwrap(dsock[p]) \in DOMAIN conns' => ~conns'[Unwrap(dsock[p])].dOpen
            /\ Dials(p) =>
                /\ lower'[p] = lower[p]
                /\ epoch'[p] = epoch[p]
                /\ Acceptor(Unwrap(dsock'[p])) = Len(lower[p])]_vars

\* Process 2 of three holds the stream of peer 0, has refused a stream of
\* peer 1 for its smaller epoch and dials peer 1 again.
C29_Witness ==
    /\ n = 3
    /\ pc[2] = "handshake"
    /\ Len(lower[2]) = 1
    /\ 1 \in seen[2].once
    /\ Acceptor(Unwrap(dsock[2])) = 1

\* The handshake of dialer p fails in this step: it ends without having
\* read the peer's epoch, or on an injected read or write error.
HandshakeFails(p) ==
    /\ pc[p] = "handshake"
    /\ pc'[p] \notin {"handshake", "bind"}
    /\ ~CompletesHandshake(p)

\* C30: in connect_lower a failed handshake closes the stream and leaves the
\* process in the loop with my_epoch and the established streams unchanged
\* and no error; no count of the failures is kept, and the next connect to
\* the same peer is possible as soon as the peer listens. connect_lower
\* returns no error other than EpochMismatch, and returns Ok only with
\* exactly my_index streams.
C30_RetryForever ==
    /\ [](\A p \in Fleet \ {0} :
            /\ pc[p] \in {"lower", "handshake"} => tries[p] = 0 /\ err[p] = None
            /\ (pc[p] = "lower" /\ Len(lower[p]) < p /\ Listening(Len(lower[p])))
                    => ENABLED DialConnect(p)
            /\ (pc[p] = "lower" /\ Len(lower[p]) < p) => ~ENABLED DialDone(p))
    /\ [][\A p \in Fleet \ {0} :
            /\ HandshakeFails(p) =>
                /\ pc'[p] = "lower"
                /\ epoch'[p] = epoch[p]
                /\ lower'[p] = lower[p]
                /\ err'[p] = None
                /\ dsock'[p] = None
                /\ Unwrap(dsock[p]) \in DOMAIN conns' => ~conns'[Unwrap(dsock[p])].dOpen
            /\ (pc[p] \in {"lower", "handshake"} /\ pc'[p] = "failed") =>
                /\ CompletesHandshake(p)
                /\ Unwrap(err'[p]).kind = "EpochMismatch"
            /\ (pc[p] = "lower" /\ pc'[p] = "higher") =>
                /\ Len(lower[p]) = p
                /\ lower'[p] = lower[p]
                /\ IsSome(epoch[p])]_vars

\* Process 2 of three holds the stream of peer 0 and is back in the loop
\* after a handshake with peer 1 that it closed before writing its epoch.
C30_Witness ==
    /\ n = 3
    /\ pc[2] = "lower"
    /\ Len(lower[2]) = 1
    /\ IsSome(epoch[2])
    /\ \E c \in DOMAIN conns :
        /\ Dialer(c) = 2 /\ Acceptor(c) = 1
        /\ ~conns[c].dOpen
        /\ conns[c].dWrote = None

\* ------------------------------------------------- the messages of a connection

\* Stream c is in the queue of its listener: not yet accepted.
Queued(c) == \E i \in 1 .. Len(backlog[Acceptor(c)]) : backlog[Acceptor(c)][i] = c

\* C31: on every connection the messages occur in one order: the dialer
\* writes its index (one word) when it connects; the listener reads it and
\* only then writes its epoch (two words), once; the dialer reads that epoch
\* and only then writes its own (two words), once; the listener reads it.
\* Nothing else is ever written, so a completed handshake carried five
\* words, and no epoch is on a connection whose index is not yet read.
C31_MessageOrder ==
    /\ [](\A c \in DOMAIN conns :
            /\ IsSome(conns[c].dWrote) => IsSome(conns[c].lWrote)
            /\ IsSome(conns[c].lWrote) => ~Queued(c)
            /\ Queued(c) => conns[c].d2l = << Dialer(c) >> /\ conns[c].l2d = << >>
            /\ Len(conns[c].d2l) <= 1 + Len(EpochWords(EpochMint(0, 0)))
            /\ Len(conns[c].l2d) <= Len(EpochWords(EpochMint(0, 0)))
            /\ (KeptByDialer(c) /\ KeptByAcceptor(c)) =>
                  /\ IsSome(conns[c].lWrote) /\ IsSome(conns[c].dWrote)
                  /\ conns[c].d2l = << >> /\ conns[c].l2d = << >>
                  /\ WordBytes * (1 + Len(EpochWords(Unwrap(conns[c].lWrote)))
                                   + Len(EpochWords(Unwrap(conns[c].dWrote)))) = 40)
    /\ [][\A c \in DOMAIN conns' :
            IF c \notin DOMAIN conns
            THEN conns'[c] = [NewConn EXCEPT !.d2l = << Dialer(c) >>]
            ELSE /\ IsSome(conns[c].lWrote) => conns'[c].lWrote = conns[c].lWrote
                 /\ IsSome(conns[c].dWrote) => conns'[c].dWrote = conns[c].dWrote
                 /\ conns'[c].lWrote # conns[c].lWrote =>
                       /\ conns[c].d2l = << Dialer(c) >> /\ conns'[c].d2l = << >>
                       /\ conns[c].l2d = << >>
                       /\ conns'[c].l2d \in {<< >>, EpochWords(Unwrap(conns'[c].lWrote))}
                 /\ conns'[c].dWrote # conns[c].dWrote =>
                       /\ Len(conns[c].l2d) = 2 /\ conns'[c].l2d = << >>
                       /\ EpochOfWords(conns[c].l2d) = Unwrap(conns[c].lWrote)
                       /\ conns[c].d2l = << >>
                       /\ conns'[c].d2l \in {<< >>, EpochWords(Unwrap(conns'[c].dWrote))}
                 /\ Len(conns'[c].l2d) > Len(conns[c].l2d) =>
                       conns'[c].lWrote # conns[c].lWrote
                 /\ Len(conns'[c].d2l) > Len(conns[c].d2l) =>
                       conns'[c].dWrote # conns[c].dWrote]_vars

\* A stream both ends keep: five words were written and all were read.
C31_Witness ==
    \E c \in DOMAIN conns :
        /\ KeptByDialer(c) /\ KeptByAcceptor(c)
        /\ IsSome(conns[c].lWrote) /\ IsSome(conns[c].dWrote)
        /\ conns[c].d2l = << >> /\ conns[c].l2d = << >>
        /\ Dialer(c) = 2

\* ------------------------------------------------------ the phases of an attempt

\* C32: within one attempt the listener is bound first, then the epoch is
\* obtained (minted by process 0, read while dialing every lower peer
\* otherwise), then the higher peers are accepted: before the bind the
\* process holds nothing, a peer is dialed and an epoch minted only by a
\* process whose listener is bound and that accepts nothing yet, and a
\* queued connection is taken or answered only by a process that holds its
\* epoch and a stream to every lower peer.
C32_PhaseOrder ==
    /\ [](\A p \in Fleet :
            /\ pc[p] = "bind" => HoldsNothing(p)
            /\ pc[p] \in {"lower", "handshake"} =>
                  /\ slots[p] = << >> /\ asock[p] = None
                  /\ \A i \in 1 .. Len(backlog[p]) :
                        /\ conns[backlog[p][i]].lWrote = None
                        /\ conns[backlog[p][i]].d2l = << Dialer(backlog[p][i]) >>
            /\ pc[p] \in {"higher", "exchange"} =>
                  /\ IsSome(epoch[p])
                  /\ dsock[p] = None
                  /\ Len(lower[p]) = p
                  /\ \A i \in 1 .. p : ConnectsTo(lower[p][i], p, i - 1))
    /\ [][/\ \A c \in DOMAIN conns' \ DOMAIN conns :
                /\ Listens(Dialer(c)) /\ slots[Dialer(c)] = << >>
                /\ Len(lower[Dialer(c)]) < Dialer(c)
          /\ minted' # minted =>
                /\ Listens(0) /\ slots[0] = << >> /\ IsNone(epoch[0])
                /\ IsSome(epoch'[0]) /\ minted' = minted \cup {Unwrap(epoch'[0])}
          /\ \A p \in Fleet :
                \/ Len(backlog'[p]) >= Len(backlog[p])
                       /\ \A c \in DOMAIN conns \cap DOMAIN conns' :
                            Acceptor(c) = p => conns'[c].lWrote = conns[c].lWrote
                \/ ~Listens(p)'
                \/ /\ IsSome(epoch[p])
                   /\ Len(lower[p]) = p
                   /\ \A i \in 1 .. p : ConnectsTo(lower[p][i], p, i - 1)]_vars

\* Process 1 of three has dialed process 0 and now answers process 2.
C32_Witness ==
    /\ n = 3
    /\ pc[1] = "exchange"
    /\ Dialer(Unwrap(asock[1]).sock) = 2
    /\ Len(lower[1]) = 1
    /\ epoch[1] = epoch[0]
    /\ IsSome(conns[Unwrap(asock[1]).sock].lWrote)

\* ------------------------------------------------ failures inside accept_higher

\* accept fails: the head of the queue is taken and the loop is where it was.
AcceptFails(p) ==
    /\ pc[p] = "higher" /\ pc'[p] = "higher"
    /\ backlog[p] # << >>
    /\ backlog'[p] = Tail(backlog[p])

\* exchange_epochs fails: the loop accepts again without a peer epoch read.
ExchangeFails(p) ==
    /\ pc[p] = "exchange" /\ pc'[p] = "higher"
    /\ ~CompletesExchange(p)

\* C33: in accept_higher a failure of accept, of the read of the peer
\* index, or of the write or read of an epoch never ends the attempt: the
\* stream is dropped, no slot changes, my_epoch and the dialed streams are
\* unchanged, no error is returned, and the loop accepts again with an empty
\* slot left. The attempt ends in accept_higher only with a stream taken
\* from the queue or with a peer epoch read.
C33_AcceptFailureContinues ==
    [][\A p \in Fleet :
          /\ AcceptFails(p) =>
                /\ slots'[p] = slots[p] /\ AnyEmpty(slots'[p])
                /\ epoch'[p] = epoch[p] /\ IsSome(epoch'[p])
                /\ lower'[p] = lower[p] /\ asock'[p] = None
                /\ err'[p] = None /\ result'[p] = result[p]
                /\ LET c == Head(backlog[p])
                   IN c \in DOMAIN conns' => ~conns'[c].lOpen
          /\ ExchangeFails(p) =>
                /\ slots'[p] = slots[p] /\ AnyEmpty(slots'[p])
                /\ epoch'[p] = epoch[p] /\ IsSome(epoch'[p])
                /\ lower'[p] = lower[p] /\ asock'[p] = None
                /\ backlog'[p] = backlog[p]
                /\ err'[p] = None /\ result'[p] = result[p]
                /\ LET c == Unwrap(asock[p]).sock
                   IN c \in DOMAIN conns' => ~conns'[c].lOpen
          /\ (pc[p] \in {"higher", "exchange"} /\ pc'[p] = "failed") =>
                \/ Accepts(p) /\ Announced(p) \in KeptPeers(p)
                \/ CompletesExchange(p)
                      /\ EpochCmp(PeerEpoch(p), Unwrap(epoch[p])) = "Greater"]_vars

\* Process 0 wrote its epoch to a stream and dropped it without an epoch of
\* the dialer to read, and accepts again.
C33_Witness ==
    /\ pc[0] = "higher" /\ AnyEmpty(slots[0])
    /\ budget.crash = MaxCrashes
    /\ \E c \in DOMAIN conns :
        /\ Acceptor(c) = 0
        /\ IsSome(conns[c].lWrote) /\ conns[c].lWrote = epoch[0]
        /\ conns[c].dWrote = None
        /\ ~conns[c].lOpen /\ conns[c].dOpen

\* ------------------------------------------------------- the epoch of process 0

Refused(k) ==
    /\ IsSome(epoch[k])
    /\ \E p \in Fleet :
        /\ pc[p] \in {"lower", "handshake"}
        /\ DialTarget(p) = k
        /\ IsSome(epoch[p])
        /\ EpochCmp(Unwrap(epoch[k]), Unwrap(epoch[p])) = "Less"

\* C35: the two ends of a handshake that both complete reach matching
\* outcomes. A dialer that holds an epoch keeps the stream on an equal
\* epoch, drops it and dials again on a smaller one, fails with
\* EpochMismatch on a greater one. The listener that then reads the dialer's
\* epoch reads the epoch the dialer held and compares it the other way
\* round: equal, it keeps the stream the dialer kept; smaller, it drops the
\* stream of a dialer that has failed; greater, it fails with EpochMismatch
\* and the dialer has only dropped the stream. A stream kept at one end is
\* kept, or still awaited, or already closed at the other. And with every
\* process taking its steps no listener goes on holding an epoch smaller
\* than that of a process dialing it: the dialer does not redial it forever.
C35_MatchingOutcomes ==
    /\ [](\A c \in DOMAIN conns :
            /\ (KeptByAcceptor(c) /\ conns[c].dOpen) => KeptByDialer(c)
            /\ (KeptByDialer(c) /\ conns[c].lOpen) =>
                  \/ KeptByAcceptor(c)
                  \/ /\ asock[Acceptor(c)] = Some([index |-> Dialer(c), sock |-> c])
                     /\ conns[c].dWrote = epoch[Acceptor(c)])
    /\ [][\A p \in Fleet :
            /\ (CompletesHandshake(p) /\ IsSome(epoch[p])) =>
                  LET c == Unwrap(dsock[p])
                      order == EpochCmp(PeerEpoch(p), Unwrap(epoch[p]))
                  IN /\ Some(PeerEpoch(p)) = conns[c].lWrote
                     /\ order = "Equal" => lower'[p] = Append(lower[p], c) /\ err'[p] = None
                     /\ order = "Less" =>
                           /\ pc'[p] = "lower" /\ lower'[p] = lower[p] /\ err'[p] = None
                           /\ epoch'[p] = epoch[p]
                           /\ c \in DOMAIN conns' => ~conns'[c].dOpen
                     /\ order = "Greater" => RaisesMismatch(p)
                     /\ c \in DOMAIN conns' => conns'[c].dWrote = epoch[p]
            /\ (CompletesExchange(p) /\ pc[p] = "exchange") =>
                  LET c == Unwrap(asock[p]).sock
                      order == EpochCmp(PeerEpoch(p), Unwrap(epoch[p]))
                  IN /\ Some(PeerEpoch(p)) = conns[c].dWrote
                     /\ conns[c].lWrote = epoch[p]
                     /\ order = "Equal" =>
                           /\ slots'[p][Dialer(c) - p] = Some(c) /\ err'[p] = None
                           /\ conns[c].dOpen => KeptByDialer(c)
                     /\ order = "Less" =>
                           /\ pc'[p] = "higher" /\ slots'[p] = slots[p] /\ err'[p] = None
                           /\ ~conns[c].dOpen /\ ~KeptByDialer(c)
                     /\ order = "Greater" =>
                           /\ RaisesMismatch(p)
                           /\ ~conns[c].dOpen /\ ~KeptByDialer(c)]_vars
    /\ \A k \in Proc : []<>(~Refused(k))

\* Process 1 holds the old epoch and read, from process 2, the greater epoch
\* that process 2 held when it dropped the stream to dial again.
C35_Witness ==
    /\ ListenerBehind(1)
    /\ Refused(1)
    /\ pc[2] \in {"lower", "handshake"} /\ Len(lower[2]) = 1
    /\ EpochCmp(Unwrap(epoch[1]), Unwrap(epoch[2])) = "Less"
    /\ ~conns[Unwrap(asock[1]).sock].dOpen

\* ------------------------------------------------------- the epoch of an attempt

\* C36: within one attempt the epoch of a process never changes once it is
\* set. An epoch is set from none by the mint of process 0 or by the first
\* completed handshake of a dialer, it is never replaced by another epoch,
\* and it is given up only when the attempt ends in an error or the process
\* restarts; every epoch the process writes is the one it holds, so every
\* open stream of the attempt carries that epoch, and the epoch named in an
\* EpochMismatch is that one too.
C36_EpochFixed ==
    /\ [](\A c \in DOMAIN conns :
            /\ (conns[c].dOpen /\ IsSome(conns[c].dWrote)) =>
                  conns[c].dWrote = epoch[Dialer(c)]
            /\ (conns[c].lOpen /\ IsSome(conns[c].lWrote)) =>
                  conns[c].lWrote = epoch[Acceptor(c)])
    /\ [][\A p \in Fleet :
            /\ (IsSome(epoch[p]) /\ IsSome(epoch'[p])) => epoch'[p] = epoch[p]
            /\ (IsSome(epoch[p]) /\ IsNone(epoch'[p])) =>
                  /\ pc'[p] \in {"failed", "bind"}
                  /\ HoldsNothing(p)'
            /\ (IsNone(epoch[p]) /\ IsSome(epoch'[p])) =>
                  \/ p = 0 /\ pc[p] = "lower" /\ minted' # minted
                  \/ p > 0 /\ CompletesHandshake(p) /\ lower[p] = << >>
            /\ \A c \in DOMAIN conns \cap DOMAIN conns' :
                  /\ (Dialer(c) = p /\ conns'[c].dWrote # conns[c].dWrote) =>
                        /\ conns'[c].dWrote = epoch'[p] \/ IsNone(epoch'[p])
                        /\ IsSome(epoch[p]) => conns'[c].dWrote = epoch[p]
                  /\ (Acceptor(c) = p /\ conns'[c].lWrote # conns[c].lWrote) =>
                        conns'[c].lWrote = epoch[p] /\ epoch'[p] = epoch[p]
            /\ (RaisesMismatch(p) /\ pc[p] \in {"handshake", "exchange"}) =>
                  Unwrap(err'[p]).my_epoch = epoch[p]]_vars

\* After a crash and a second mint, process 2 holds streams to both lower
\* peers and wrote the same epoch, the one it holds, to each.
C36_Witness ==
    /\ budget.crash = 0
    /\ \E e \in minted : Some(e) # epoch[2]
    /\ pc[2] = "lower" /\ Len(lower[2]) = 2
    /\ conns[lower[2][1]].dWrote = epoch[2]
    /\ conns[lower[2][2]].dWrote = epoch[2]
    /\ conns[lower[2][2]].lWrote = epoch[2]

\* ------------------------------------------- the slot check and the exchange

\* C37: in accept_higher the check of the slot comes before the exchange of
\* epochs. A connection that announces an index whose slot is filled fails
\* the listener with Reconnect in the step that reads the index: the
\* listener has written no epoch to that stream and never does, the stream
\* carries no epoch of the peer to read, and the epoch the peer holds
\* (none, smaller, equal or greater) plays no part.
C37_SlotCheckFirst ==
    [][\A p \in Fleet :
          (Accepts(p) /\ IsSome(SlotOf(p, Announced(p)))) =>
              LET c == Head(backlog[p])
              IN /\ conns[c].d2l = << Announced(p) >>
                 /\ conns[c].lWrote = None /\ conns[c].dWrote = None
                 /\ conns[c].l2d = << >>
                 /\ pc'[p] = "failed"
                 /\ err'[p] = Some(Reconnect(Announced(p)))
                 /\ asock'[p] = None
                 /\ c \in DOMAIN conns' =>
                       /\ conns'[c].lWrote = None /\ conns'[c].l2d = << >>
                       /\ conns'[c].dWrote = None
                       /\ ~conns'[c].lOpen]_vars

\* Process 1 held the first epoch (it wrote it to process 3) and has failed
\* with Reconnect on the connection of process 2, which holds a greater
\* epoch and was written none.
C37_Witness ==
    /\ pc[1] = "failed" /\ err[1] = Some(Reconnect(2))
    /\ pc[2] = "handshake" /\ IsSome(epoch[2])
    /\ LET d == Unwrap(dsock[2])
       IN /\ Acceptor(d) = 1
          /\ conns[d].lWrote = None /\ ~conns[d].lOpen
    /\ \E c \in DOMAIN conns :
          /\ Acceptor(c) = 1 /\ Dialer(c) = 3
          /\ IsSome(conns[c].lWrote)
          /\ EpochCmp(Unwrap(epoch[2]), Unwrap(conns[c].lWrote)) = "Greater"

\* --------------------------------------------------------- the index received

\* sockets[index - offset] of a process with my_index p: the position is
\* not below zero and is inside a vector of n_peers - offset slots.
InsideSlots(p, index) ==
    /\ index - (p + 1) >= 0
    /\ index - (p + 1) < n - (p + 1)

\* C38: every peer index accept_higher reads satisfies my_index < index < N,
\* so index - (my_index + 1) does not underflow and is inside the slot
\* vector. It holds because a process dials only the addresses of the peers
\* below it and each address reaches the listener of its own process: every
\* connection in a listener's queue announces the index of its dialer, a
\* higher process; the index read is that one; and a stream is stored in
\* the slot of its dialer.
C38_IndexInRange ==
    \A p \in Fleet :
        /\ \A i \in 1 .. Len(backlog[p]) :
              LET c == backlog[p][i]
              IN /\ Acceptor(c) = p /\ Dialer(c) \in Fleet
                 /\ conns[c].d2l # << >>
                 /\ Head(conns[c].d2l) = Dialer(c)
                 /\ p < Head(conns[c].d2l) /\ Head(conns[c].d2l) < n
                 /\ InsideSlots(p, Head(conns[c].d2l))
        /\ IsSome(asock[p]) =>
              /\ Unwrap(asock[p]).index = Dialer(Unwrap(asock[p]).sock)
              /\ p < Unwrap(asock[p]).index /\ Unwrap(asock[p]).index < n
              /\ InsideSlots(p, Unwrap(asock[p]).index)
              /\ Unwrap(asock[p]).index - (p + 1) + 1 \in DOMAIN slots[p]
        /\ pc[p] \in {"higher", "exchange"} =>
              /\ Len(slots[p]) = n - (p + 1)
              /\ \A i \in 1 .. Len(slots[p]) :
                    IsSome(slots[p][i]) => ConnectsTo(Unwrap(slots[p][i]), p, p + i)

\* In a fleet of three process 0 has read the greatest index, for its last
\* slot, and process 1 the index next to its own, for its first.
C38_Witness ==
    /\ n = 3
    /\ pc[0] = "exchange" /\ Unwrap(asock[0]).index = n - 1
    /\ Unwrap(asock[0]).index - (0 + 1) + 1 = Len(slots[0])
    /\ pc[1] = "exchange" /\ Unwrap(asock[1]).index = 1 + 1
    /\ Unwrap(asock[1]).index - (1 + 1) = 0

\* ------------------------------------------------------ the life of the listener

\* C39: a process takes and answers connections only inside accept_higher
\* with an empty slot left. Once create_sockets has returned, Ok or Err, the
\* listener of the attempt is closed: its queue is gone, every stream the
\* process did not return is closed at its end, no connection reaches it, and
\* none is answered; and the vector returned stays as it is while the
\* process is returned, whatever restarted peers try.
C39_ListenerOfAttempt ==
    /\ [](\A p \in Fleet :
            /\ pc[p] \in {"bind", "returned", "failed", "aborted"} =>
                  /\ ~Listens(p)
                  /\ backlog[p] = << >> /\ asock[p] = None /\ slots[p] = << >>
                  /\ ~ENABLED Accept(p) /\ ~ENABLED AcceptExchange(p)
                  /\ \A c \in DOMAIN conns :
                        (Acceptor(c) = p /\ conns[c].lOpen) =>
                            pc[p] = "returned" /\ c \in Held(p)
            /\ pc[p] # "returned" => result[p] = << >>)
    /\ [][/\ \A c \in DOMAIN conns' \ DOMAIN conns : Listens(Acceptor(c))
          /\ \A p \in Fleet :
                /\ (Listens(p)' /\ Len(backlog'[p]) < Len(backlog[p])) =>
                      pc[p] = "higher" /\ AnyEmpty(slots[p])
                /\ (\E c \in DOMAIN conns \cap DOMAIN conns' :
                        Acceptor(c) = p /\ conns'[c].lWrote # conns[c].lWrote) =>
                      pc[p] = "higher" /\ AnyEmpty(slots[p])
                /\ (pc[p] = "returned" /\ pc'[p] = "returned") =>
                      result'[p] = result[p]
                /\ result'[p] # result[p] =>
                      \/ Returns(p)
                      \/ pc[p] = "returned" /\ pc'[p] = "bind" /\ result'[p] = << >>]_vars

\* Process 0 has returned its vector; process 1 crashed, is dialing again
\* and finds no listener.
C39_Witness ==
    /\ pc[0] = "returned" /\ Len(result[0]) = n
    /\ Doomed(0)
    /\ pc[1] = "lower" /\ lower[1] = << >>
    /\ ~ENABLED DialConnect(1)
    /\ budget.crash = 0

====
